---- MODULE Spec2Model ----
(***************************************************************************)
(* Capture sequencing of the ONSD ultrasound application:                  *)
(*   domain/entities.py        CaptureSlot, OperationState                 *)
(*   domain/policies.py        SixImagesPolicy                             *)
(*   use_cases/capture_controller.py   CaptureController                   *)
(*   interface_adapters/processor_ultra.py   ULTRAProcessor.process        *)
(* The controller owns one OperationState; every public method of the      *)
(* controller is one action.  Python lists are 0-based, TLA+ sequences are *)
(* 1-based: order[cursor] in the source is s.order[s.cursor + 1] here.     *)
(***************************************************************************)
EXTENDS Integers, Sequences, FiniteSets, TLC

\* ---------------------------------------------------------------- bounds
\* Raw camera frames are drawn from 0..MaxFrame.
MaxFrame == 1

Frames == 0..MaxFrame

\* Image lists, measurement CSVs and capture-time lists have 0..MaxLen entries.
MaxLen == 10

\* ------------------------------------------------------- domain/entities
\* CaptureSlot(eye, index_in_eye): frozen dataclass.
CaptureSlot(eye, index_in_eye) == [eye |-> eye, index_in_eye |-> index_in_eye]

\* OperationState(order=...): cursor 0, both image lists empty.
OperationState(order) ==
    [order |-> order, cursor |-> 0, images_right |-> <<>>, images_left |-> <<>>]

\* OperationState.total: len(self.order)
total(s) == Len(s.order)

\* Mutant of is_complete: off by one, complete already at the last slot.
is_complete_early(s) == s.cursor >= total(s) - 1

\* OperationState.is_complete: self.cursor >= self.total
is_complete(s) == s.cursor >= total(s)

\* OperationState.current_slot: self.order[self.cursor]
current_slot(s) == s.order[s.cursor + 1]

\* Mutant of advance: the cursor skips a slot.
advance_by_two(s) == [s EXCEPT !.cursor = s.cursor + 2]

\* OperationState.advance: self.cursor += 1
advance(s) == [s EXCEPT !.cursor = s.cursor + 1]

\* ------------------------------------------------------- domain/policies
\* Mutant of initial_order: the left eye comes first.
initial_order_left_first ==
    [i \in 1..3 |-> CaptureSlot("Left", i)] \o [i \in 1..3 |-> CaptureSlot("Right", i)]

\* SixImagesPolicy.initial_order: Right 1..3 then Left 1..3.
initial_order ==
    [i \in 1..3 |-> CaptureSlot("Right", i)] \o [i \in 1..3 |-> CaptureSlot("Left", i)]

\* Mutant of store_image: appends to the bucket but forgets state.advance().
store_image_no_advance(s, processed) ==
    IF current_slot(s).eye = "Right"
    THEN [s EXCEPT !.images_right = Append(s.images_right, processed)]
    ELSE [s EXCEPT !.images_left = Append(s.images_left, processed)]

\* Mutant of store_image: the eye test is inverted.
store_image_wrong_bucket(s, processed) ==
    IF current_slot(s).eye = "Left"
    THEN advance([s EXCEPT !.images_right = Append(s.images_right, processed)])
    ELSE advance([s EXCEPT !.images_left = Append(s.images_left, processed)])

\* Mutant of store_image: the bucket is chosen by looking at the item.
store_image_by_content(s, processed) ==
    IF processed.edges_of = 0
    THEN advance([s EXCEPT !.images_right = Append(s.images_right, processed)])
    ELSE advance([s EXCEPT !.images_left = Append(s.images_left, processed)])

\* SixImagesPolicy.store_image: append to the bucket of the current slot's
\* eye, then advance the cursor.
store_image(s, processed) ==
    IF current_slot(s).eye = "Right"
    THEN advance([s EXCEPT !.images_right = Append(s.images_right, processed)])
    ELSE advance([s EXCEPT !.images_left = Append(s.images_left, processed)])

\* ------------------------------------------- interface_adapters/processor
\* ULTRAProcessor.process: a deterministic function of the frame (grey
\* conversion, Canny edges, back to BGR); the result is an edge image, not
\* the frame itself.
process(frame) == [edges_of |-> frame]

\* ------------------------------------------------- use_cases/controller
NoError == "none"
AlreadyCaptured == "All 6 images already captured."

\* Outcome of one controller call: the state it leaves, the exception it
\* raised (NoError when it returned), the value it returned (a tuple, empty
\* for None) and how often it invoked the processor.
Outcome(s, raised, ret, calls) ==
    [state |-> s, raised |-> raised, ret |-> ret, calls |-> calls]

\* Mutant of progress_vector: the min() clamp is missing.
progress_vector_unclamped(s) == Outcome(s, NoError, <<s.cursor + 1, total(s)>>, 0)

\* CaptureController.progress_vector
progress_vector(s) ==
    LET cur == IF s.cursor + 1 <= total(s) THEN s.cursor + 1 ELSE total(s)
    IN  Outcome(s, NoError, <<cur, total(s)>>, 0)

\* CaptureController.is_complete
controller_is_complete(s) == Outcome(s, NoError, <<is_complete(s)>>, 0)

\* str(index_in_eye) for the ordinals a slot can carry.
str(n) == CASE n = 1 -> "1" [] n = 2 -> "2" [] n = 3 -> "3" [] OTHER -> "?"

\* Mutant of next_expected_label: the ordinal is the position in the whole
\* sequence instead of the slot's index_in_eye.
next_expected_label_global_index(s) ==
    IF is_complete(s)
    THEN Outcome(s, NoError, <<"Completed">>, 0)
    ELSE LET slot == current_slot(s)
         IN  Outcome(s, NoError, <<slot.eye \o " #" \o str(s.cursor + 1)>>, 0)

\* CaptureController.next_expected_label
next_expected_label(s) ==
    IF is_complete(s)
    THEN Outcome(s, NoError, <<"Completed">>, 0)
    ELSE LET slot == current_slot(s)
         IN  Outcome(s, NoError, <<slot.eye \o " #" \o str(slot.index_in_eye)>>, 0)

\* Mutant of process_only: the preview is stored like a capture.
process_only_stores(s, frame) ==
    IF is_complete(s)
    THEN Outcome(s, NoError, <<process(frame)>>, 1)
    ELSE Outcome(store_image(s, process(frame)), NoError, <<process(frame)>>, 1)

\* CaptureController.process_only
process_only(s, frame) == Outcome(s, NoError, <<process(frame)>>, 1)

\* Mutant of capture: a capture on a complete session is swallowed, the
\* processor still runs and nothing is raised.
capture_swallow(s, frame) ==
    IF is_complete(s)
    THEN Outcome(s, NoError, <<>>, 1)
    ELSE Outcome(store_image(s, process(frame)), NoError, <<>>, 1)

\* CaptureController.capture
capture(s, frame) ==
    IF is_complete(s)
    THEN Outcome(s, AlreadyCaptured, <<>>, 0)
    ELSE Outcome(store_image(s, process(frame)), NoError, <<>>, 1)

\* Mutant of undo: the cursor moves back but nothing is popped.
undo_no_pop(s) ==
    IF s.cursor = 0
    THEN Outcome(s, NoError, <<>>, 0)
    ELSE Outcome([s EXCEPT !.cursor = s.cursor - 1], NoError, <<>>, 0)

\* Mutant of undo: the slot is read before the cursor is decremented.
undo_slot_before_decrement(s) ==
    IF s.cursor = 0
    THEN Outcome(s, NoError, <<>>, 0)
    ELSE LET slot == s.order[IF s.cursor < Len(s.order) THEN s.cursor + 1 ELSE s.cursor]
             t    == [s EXCEPT !.cursor = s.cursor - 1]
         IN  IF slot.eye = "Right" /\ Len(t.images_right) > 0
             THEN Outcome([t EXCEPT !.images_right =
                              SubSeq(t.images_right, 1, Len(t.images_right) - 1)],
                          NoError, <<>>, 0)
             ELSE IF slot.eye = "Left" /\ Len(t.images_left) > 0
             THEN Outcome([t EXCEPT !.images_left =
                              SubSeq(t.images_left, 1, Len(t.images_left) - 1)],
                          NoError, <<>>, 0)
             ELSE Outcome(t, NoError, <<>>, 0)

PopFromEmpty == "IndexError: pop from empty list"

\* Mutant of undo: the bucket is popped without looking whether it holds
\* anything.
undo_unguarded_pop(s) ==
    IF s.cursor = 0
    THEN Outcome(s, NoError, <<>>, 0)
    ELSE LET t    == [s EXCEPT !.cursor = s.cursor - 1]
             slot == t.order[t.cursor + 1]
             bucket == IF slot.eye = "Right" THEN t.images_right ELSE t.images_left
         IN  IF Len(bucket) = 0 THEN Outcome(t, PopFromEmpty, <<>>, 0)
             ELSE IF slot.eye = "Right"
             THEN Outcome([t EXCEPT !.images_right = SubSeq(bucket, 1, Len(bucket) - 1)],
                          NoError, <<>>, 0)
             ELSE Outcome([t EXCEPT !.images_left = SubSeq(bucket, 1, Len(bucket) - 1)],
                          NoError, <<>>, 0)

\* CaptureController.undo
undo(s) ==
    IF s.cursor = 0
    THEN Outcome(s, NoError, <<>>, 0)
    ELSE LET t    == [s EXCEPT !.cursor = s.cursor - 1]
             slot == t.order[t.cursor + 1]
         IN  IF slot.eye = "Right" /\ Len(t.images_right) > 0
             THEN Outcome([t EXCEPT !.images_right =
                              SubSeq(t.images_right, 1, Len(t.images_right) - 1)],
                          NoError, <<>>, 0)
             ELSE IF slot.eye = "Left" /\ Len(t.images_left) > 0
             THEN Outcome([t EXCEPT !.images_left =
                              SubSeq(t.images_left, 1, Len(t.images_left) - 1)],
                          NoError, <<>>, 0)
             ELSE Outcome(t, NoError, <<>>, 0)

\* Mutant of reset: only the cursor is rewound, the buckets are kept.
reset_cursor_only(s) == Outcome([s EXCEPT !.cursor = 0], NoError, <<>>, 0)

\* CaptureController.reset
reset(s) == Outcome(OperationState(initial_order), NoError, <<>>, 0)

\* ------------------------------------------------ binary64 arithmetic
\* The averages are computed in Python floats (IEEE 754 binary64).  A float
\* is modelled exactly as [m, e] with value m * 2^e, where m is a natural
\* number of exactly 53 bits (or zero) held as a little-endian sequence of
\* limbs in base LimbBase, so that no intermediate value leaves TLC's
\* integers.  Measurement values are written in hundredths: the integer h
\* stands for the float nearest to h / 100, which is what float("h/100")
\* and round(x, 2) return.
LimbBase == 32768

LimbBits == 15

MantissaBits == 53

RECURSIVE Pow2(_)
Pow2(k) == IF k = 0 THEN 1 ELSE 2 * Pow2(k - 1)

RECURSIVE BigOf(_)
BigOf(n) == IF n = 0 THEN <<>> ELSE <<n % LimbBase>> \o BigOf(n \div LimbBase)

RECURSIVE BigToInt(_)
BigToInt(x) == IF x = <<>> THEN 0 ELSE Head(x) + LimbBase * BigToInt(Tail(x))

RECURSIVE BigStrip(_)
BigStrip(x) ==
    IF x = <<>> THEN x
    ELSE IF x[Len(x)] = 0 THEN BigStrip(SubSeq(x, 1, Len(x) - 1)) ELSE x

RECURSIVE BigMulCarry(_, _, _)
BigMulCarry(x, k, carry) ==
    IF x = <<>> THEN BigOf(carry)
    ELSE LET t == Head(x) * k + carry
         IN  <<t % LimbBase>> \o BigMulCarry(Tail(x), k, t \div LimbBase)

BigMulSmall(x, k) == BigMulCarry(x, k, 0)

RECURSIVE BigAddCarry(_, _, _)
BigAddCarry(x, y, carry) ==
    IF x = <<>> /\ y = <<>> THEN BigOf(carry)
    ELSE LET a == IF x = <<>> THEN 0 ELSE Head(x)
             b == IF y = <<>> THEN 0 ELSE Head(y)
             t == a + b + carry
         IN  <<t % LimbBase>> \o
             BigAddCarry(IF x = <<>> THEN x ELSE Tail(x),
                         IF y = <<>> THEN y ELSE Tail(y), t \div LimbBase)

BigAdd(x, y) == BigAddCarry(x, y, 0)

\* Long division by a divisor below LimbBase, most significant limb first.
RECURSIVE BigDivRaw(_, _)
BigDivRaw(x, d) ==
    IF x = <<>> THEN [q |-> <<>>, r |-> 0]
    ELSE LET hi == BigDivRaw(Tail(x), d)
             t  == hi.r * LimbBase + Head(x)
         IN  [q |-> <<t \div d>> \o hi.q, r |-> t % d]

BigDivSmall(x, d) ==
    LET raw == BigDivRaw(x, d) IN [q |-> BigStrip(raw.q), r |-> raw.r]

RECURSIVE IntBitLen(_)
IntBitLen(n) == IF n = 0 THEN 0 ELSE 1 + IntBitLen(n \div 2)

BigBitLen(x) ==
    IF x = <<>> THEN 0 ELSE (Len(x) - 1) * LimbBits + IntBitLen(x[Len(x)])

BigOdd(x) == x # <<>> /\ Head(x) % 2 = 1

RECURSIVE BigShl(_, _)
BigShl(x, k) ==
    IF k = 0 THEN x
    ELSE IF k >= LimbBits - 1
         THEN BigShl(BigMulSmall(x, Pow2(LimbBits - 1)), k - (LimbBits - 1))
         ELSE BigMulSmall(x, Pow2(k))

\* floor(x / 2^k), with s telling whether any bit was shifted out.
RECURSIVE BigShrSticky(_, _)
BigShrSticky(x, k) ==
    IF k = 0 THEN [q |-> x, s |-> FALSE]
    ELSE LET j    == IF k >= LimbBits - 1 THEN LimbBits - 1 ELSE k
             d    == BigDivSmall(x, Pow2(j))
             rest == BigShrSticky(d.q, k - j)
         IN  [q |-> rest.q, s |-> rest.s \/ d.r # 0]

\* x / 2^k rounded to the nearest integer, ties to even.
BigRoundShift(x, k) ==
    IF k = 0 THEN x
    ELSE LET a  == BigShrSticky(x, k - 1)
             d  == BigDivSmall(a.q, 2)
             up == d.r = 1 /\ (a.s \/ BigOdd(d.q))
         IN  IF up THEN BigAdd(d.q, <<1>>) ELSE d.q

\* x / d rounded to the nearest integer, ties to even (d below LimbBase).
BigRoundDiv(x, d) ==
    LET r  == BigDivSmall(x, d)
        up == 2 * r.r > d \/ (2 * r.r = d /\ BigOdd(r.q))
    IN  IF up THEN BigAdd(r.q, <<1>>) ELSE r.q

FloatZero == [m |-> <<>>, e |-> 0]

\* A rounded mantissa that reached 2^53 is renormalised.
FloatPack(m, e) ==
    IF BigBitLen(m) > MantissaBits
    THEN [m |-> BigDivSmall(m, 2).q, e |-> e + 1]
    ELSE [m |-> m, e |-> e]

\* The float nearest to n * 2^e / d (round to nearest, ties to even).
FloatOfRatio(n, e, d) ==
    IF n = <<>> THEN FloatZero
    ELSE IF d = 1
    THEN LET len == BigBitLen(n)
         IN  IF len <= MantissaBits
             THEN [m |-> BigShl(n, MantissaBits - len), e |-> e - (MantissaBits - len)]
             ELSE FloatPack(BigRoundShift(n, len - MantissaBits), e + (len - MantissaBits))
    ELSE LET t0 == MantissaBits - BigBitLen(n) + IntBitLen(d)
             t  == IF BigBitLen(BigDivSmall(BigShl(n, t0), d).q) > MantissaBits
                   THEN t0 - 1 ELSE t0
         IN  FloatPack(BigRoundDiv(BigShl(n, t), d), e - t)

\* float("h/100"): the float a CSV cell with the decimal text of h
\* hundredths parses to.
FloatOfHundredths(h) == FloatOfRatio(BigOf(h), 0, 100)

\* a + b on floats.
FloatAdd(a, b) ==
    IF a.m = <<>> THEN b
    ELSE IF b.m = <<>> THEN a
    ELSE LET e0 == IF a.e <= b.e THEN a.e ELSE b.e
         IN  FloatOfRatio(BigAdd(BigShl(a.m, a.e - e0), BigShl(b.m, b.e - e0)), e0, 1)

\* a / n for a float a and an integer n >= 1.
FloatDivInt(a, n) == FloatOfRatio(a.m, a.e, n)

\* round(a, 2), in hundredths: the exact binary value of a is rounded to two
\* decimals, ties to even (CPython's correctly rounded float.__round__).
FloatRound2(a) ==
    LET scaled == BigMulSmall(a.m, 100)
    IN  IF a.m = <<>> THEN 0
        ELSE IF a.e >= 0 THEN BigToInt(BigShl(scaled, a.e))
        ELSE BigToInt(BigRoundShift(scaled, 0 - a.e))

\* sum(values): left to right float additions starting from 0.
RECURSIVE FloatSum(_)
FloatSum(hs) ==
    IF hs = <<>> THEN FloatZero
    ELSE FloatAdd(FloatSum(SubSeq(hs, 1, Len(hs) - 1)), FloatOfHundredths(hs[Len(hs)]))

\* round(sum(vals) / len(vals), 2) for a non-empty list of present values.
RoundedMean(hs) == FloatRound2(FloatDivInt(FloatSum(hs), Len(hs)))

\* ------------------------------------------------------ optional values
\* Python's None and a present value x: None is the empty tuple, x is <<x>>.
\* An Optional[List] is None or <<list>>; a list element that may be None
\* is None or <<value>>.
None == <<>>

Some(x) == <<x>>

Max(a, b) == IF a >= b THEN a ELSE b

Smaller(a, b) == IF a <= b THEN a ELSE b

\* values[:n]
Take(values, n) == SubSeq(values, 1, Smaller(n, Len(values)))

\* values[n:]
Drop(values, n) == SubSeq(values, n + 1, Len(values))

\* [default] * n
Repeat(default, n) == [i \in 1..Max(0, n) |-> default]

\* [v for v in values if v is not None]
RECURSIVE Present(_)
Present(values) ==
    IF values = <<>> THEN <<>>
    ELSE (IF Head(values) = None THEN <<>> ELSE <<Head(values)[1]>>) \o Present(Tail(values))

\* The em dash (U+2014) the source uses for an unknown entry.
Dash == "--"

\* ------------------------------------------ domain/entities: Measurement
\* Measurement(): every field None.
Measurement ==
    [image_stem |-> None, status |-> None, ond_px |-> None, onsd_px |-> None,
     ond_mm |-> None, onsd_mm |-> None, depth_mm |-> None, latency_s |-> None,
     time |-> None]

\* Mutant of eye_average: an eye without values averages to 0.
eye_average_zero_when_empty(values) ==
    LET vals == Present(values)
    IN  IF vals = <<>> THEN Some(0) ELSE Some(RoundedMean(vals))

\* Mutant of eye_average: zero is dropped like None (a truthiness test
\* instead of "is not None").
RECURSIVE Truthy(_)
Truthy(values) ==
    IF values = <<>> THEN <<>>
    ELSE (IF Head(values) = None \/ Head(values) = Some(0) THEN <<>> ELSE <<Head(values)[1]>>)
         \o Truthy(Tail(values))

eye_average_drops_zero(values) ==
    LET vals == Truthy(values)
    IN  IF vals = <<>> THEN None ELSE Some(RoundedMean(vals))

\* round(sum(vals) / len(vals), 2) if vals else None, over the values that
\* are not None: ReportWriter.save_report.
eye_average(values) ==
    LET vals == Present(values)
    IN  IF vals = <<>> THEN None ELSE Some(RoundedMean(vals))

\* ReportData.__post_init__ and ReportData.all_images
ReportData_all_images(right_images, left_images) ==
    (Take(right_images, 3) \o Repeat(None, 3 - Len(right_images)))
    \o (Take(left_images, 3) \o Repeat(None, 3 - Len(left_images)))

\* -------------------------------- interface_adapters/measurement_loader
\* A CSV cell is text: the decimal text of h hundredths, the empty string,
\* or text that is no number.
NumberCell(h) == [kind |-> "number", h |-> h]

EmptyCell == [kind |-> "empty", h |-> 0]

JunkCell == [kind |-> "junk", h |-> 0]

\* Mutant of to_float: an empty or unparseable cell reads as 0.
to_float_zero_for_gaps(cell) ==
    IF cell = None THEN None
    ELSE IF cell[1].kind = "number" THEN Some(cell[1].h) ELSE Some(0)

\* _to_float: None for None, "" and unparseable text, else float(s).
to_float(cell) ==
    IF cell = None THEN None
    ELSE IF cell[1].kind = "number" THEN Some(cell[1].h) ELSE None

FileNotFound == "FileNotFoundError"

\* MeasurementLoader.load_measurements: one Measurement per row, at most
\* max_rows of them.  The header carries the canonical column names.
load_measurements(csv, max_rows) ==
    IF ~csv.is_file
    THEN [raised |-> FileNotFound, out |-> <<>>]
    ELSE [raised |-> NoError,
          out |-> [i \in 1..Smaller(max_rows, Len(csv.rows)) |->
                     LET row == csv.rows[i]
                     IN  [image_stem |-> row.image_stem,
                          status     |-> row.status,
                          ond_px     |-> to_float(row.ond_px),
                          onsd_px    |-> to_float(row.onsd_px),
                          ond_mm     |-> to_float(row.ond_mm),
                          onsd_mm    |-> to_float(row.onsd_mm),
                          depth_mm   |-> to_float(row.depth_mm),
                          latency_s  |-> to_float(row.latency_s),
                          time       |-> row.time]]]

\* Mutant of load_patient_report: the eyes are not filled up with empty
\* measurements.
load_patient_report_unpadded(csv, max_rows) ==
    LET loaded == load_measurements(csv, max_rows)
    IN  IF loaded.raised # NoError THEN [raised |-> loaded.raised, report |-> None]
        ELSE [raised |-> NoError,
              report |-> Some([right_eye |-> Take(loaded.out, 3),
                               left_eye  |-> Take(Drop(loaded.out, 3), 3)])]

\* Mutant of load_patient_report: the left eye starts one row early.
load_patient_report_left_early(csv, max_rows) ==
    LET loaded == load_measurements(csv, max_rows)
    IN  IF loaded.raised # NoError THEN [raised |-> loaded.raised, report |-> None]
        ELSE LET right_measurements == Take(loaded.out, 3)
                 left_measurements  == Take(Drop(loaded.out, 2), 3)
             IN  [raised |-> NoError,
                  report |-> Some(
                     [right_eye |-> right_measurements
                                       \o Repeat(Measurement, 3 - Len(right_measurements)),
                      left_eye  |-> left_measurements
                                       \o Repeat(Measurement, 3 - Len(left_measurements))])]

\* MeasurementLoader.load_patient_report: the first three measurements are
\* the right eye's, the next three the left eye's, each eye filled up to
\* three with Measurement().
load_patient_report(csv, max_rows) ==
    LET loaded == load_measurements(csv, max_rows)
    IN  IF loaded.raised # NoError THEN [raised |-> loaded.raised, report |-> None]
        ELSE LET right_measurements == Take(loaded.out, 3)
                 left_measurements  == Take(Drop(loaded.out, 3), 3)
             IN  [raised |-> NoError,
                  report |-> Some(
                     [right_eye |-> right_measurements
                                       \o Repeat(Measurement, 3 - Len(right_measurements)),
                      left_eye  |-> left_measurements
                                       \o Repeat(Measurement, 3 - Len(left_measurements))])]

\* ------------------------------------------ domain/entities: PatientReport
\* A PatientReport is [right_eye, left_eye], each the measurements list of
\* an EyeMeasurements.

\* PatientReport.all_measurements
all_measurements(report) == Take(report.right_eye, 3) \o Take(report.left_eye, 3)

\* m.time or "--", m.status or "--": the dash for None and for "".
or_dash(text) == IF text = None \/ text = Some("") THEN Dash ELSE text[1]

\* EyeMeasurements.average_onsd_mm: the rounded mean of the measurements'
\* onsd_mm that are not None, None when there is none.
average_onsd_mm(measurements) ==
    LET valid_values == Present([i \in 1..Len(measurements) |-> measurements[i].onsd_mm])
    IN  IF valid_values = <<>> THEN None ELSE Some(RoundedMean(valid_values))

\* EyeMeasurements.average_ond_mm
average_ond_mm(measurements) ==
    LET valid_values == Present([i \in 1..Len(measurements) |-> measurements[i].ond_mm])
    IN  IF valid_values = <<>> THEN None ELSE Some(RoundedMean(valid_values))

\* PatientReport.onsd_values, ond_values, capture_times, status_values and
\* the two eyes' average_onsd_mm and average_ond_mm.
PatientReport_lists(report) ==
    LET all == all_measurements(report)
        onsd(ms) == [i \in 1..Len(ms) |-> ms[i].onsd_mm]
        ond(ms)  == [i \in 1..Len(ms) |-> ms[i].ond_mm]
    IN  [right_eye        |-> report.right_eye,
         left_eye         |-> report.left_eye,
         all_measurements |-> all,
         onsd_values      |-> onsd(all),
         ond_values       |-> ond(all),
         capture_times    |-> [i \in 1..Len(all) |-> or_dash(all[i].time)],
         status_values    |-> [i \in 1..Len(all) |-> or_dash(all[i].status)],
         right_average_onsd_mm |-> average_onsd_mm(report.right_eye),
         left_average_onsd_mm  |-> average_onsd_mm(report.left_eye),
         right_average_ond_mm  |-> average_ond_mm(report.right_eye),
         left_average_ond_mm   |-> average_ond_mm(report.left_eye)]

\* ------------------------------------- interface_adapters/report_writer
\* ReportWriter._normalize_list
normalize_list(values, length, default) ==
    IF values = None THEN Repeat(default, length)
    ELSE Take(values[1], length) \o Repeat(default, length - Len(values[1]))

\* Mutant of save_report's image normalisation: the lists are concatenated
\* before padding, so a short right list lets left images move up.
normalize_images_concat_first(images_right, images_left) ==
    LET both == Take(images_right, 3) \o Take(images_left, 3)
    IN  [right |-> Take(both \o Repeat(None, 6 - Len(both)), 3),
         left  |-> Drop(both \o Repeat(None, 6 - Len(both)), 3)]

\* save_report, "Normalize lists": three slots per eye.
normalize_images(images_right, images_left) ==
    [right |-> Take(images_right, 3) \o Repeat(None, 3 - Len(images_right)),
     left  |-> Take(images_left, 3) \o Repeat(None, 3 - Len(images_left))]

\* ReportWriter.__init__: threshold_mm = 6.0, in hundredths of a millimetre.
DefaultThreshold == 600

\* Mutant of is_normal: an average equal to the threshold is not within it.
is_normal_strict(v, threshold_mm) == v # None /\ v[1] < threshold_mm

\* _build_pdf_single_page, is_normal(v): v is not None and v <= threshold.
\* An average and the threshold are the floats nearest to their hundredths,
\* and these are ordered as the hundredths are.
is_normal(v, threshold_mm) == v # None /\ v[1] <= threshold_mm

\* Mutant of avg_color: an average at the threshold is drawn in red.
avg_color_red_at_threshold(val, threshold_mm) ==
    IF val = None THEN "black"
    ELSE IF val[1] >= threshold_mm THEN "red" ELSE "blue"

\* ReportWriter._avg_color: black for a missing average, red for one above
\* the threshold, else the blue #0a84ff.
avg_color(val, threshold_mm) ==
    IF val = None THEN "black"
    ELSE IF val[1] > threshold_mm THEN "red" ELSE "blue"

\* Mutant of build_pdf_single_page: a missing average does not count against
\* the finding.
build_pdf_single_page_missing_is_normal(threshold_mm, right_avg, left_avg) ==
    [finding |-> IF (right_avg = None \/ is_normal(right_avg, threshold_mm))
                    /\ (left_avg = None \/ is_normal(left_avg, threshold_mm))
                 THEN "normal" ELSE "abnormal",
     right_color |-> avg_color(right_avg, threshold_mm),
     left_color  |-> avg_color(left_avg, threshold_mm)]

\* ReportWriter._build_pdf_single_page: the colours the two averages are
\* drawn in and the "Normal/Abnormal" line of the page.
build_pdf_single_page(threshold_mm, right_avg, left_avg) ==
    [finding |-> IF (right_avg # None /\ left_avg # None)
                    /\ (is_normal(right_avg, threshold_mm) /\ is_normal(left_avg, threshold_mm))
                 THEN "normal" ELSE "abnormal",
     right_color |-> avg_color(right_avg, threshold_mm),
     left_color  |-> avg_color(left_avg, threshold_mm)]

\* The page of the PDF a call has written, if it has written one.
written_page(threshold_mm, record) ==
    IF record = None THEN None
    ELSE Some(build_pdf_single_page(threshold_mm, record[1].right_avg, record[1].left_avg))

PngPdf == <<"report.png", "report.pdf">>

\* Mutant of save_report: the lists are padded but never truncated.
save_report_no_truncation(a) ==
    LET pad(values, default) ==
            IF values = None THEN Repeat(default, 6)
            ELSE values[1] \o Repeat(default, 6 - Len(values[1]))
        imgs == normalize_images(a.images_right, a.images_left)
        onsd == pad(a.onsd_values, None)
    IN  [imgs_all       |-> imgs.right \o imgs.left,
         onsd_values    |-> onsd,
         capture_times  |-> pad(a.capture_times, Dash),
         ond_values     |-> pad(a.ond_values, None),
         onsd_px_values |-> pad(a.onsd_px_values, None),
         ond_px_values  |-> pad(a.ond_px_values, None),
         depth_values   |-> pad(a.depth_values, None),
         latency_values |-> pad(a.latency_values, None),
         status_values  |-> pad(a.status_values, Some(Dash)),
         right_avg      |-> eye_average(Take(onsd, 3)),
         left_avg       |-> eye_average(Drop(onsd, 3)),
         ret            |-> PngPdf]

\* ReportWriter.save_report: the normalised six-slot lists and the two
\* averages that are handed to _build_pdf_single_page, and the returned
\* (png_path, pdf_path).
save_report(a) ==
    LET imgs == normalize_images(a.images_right, a.images_left)
        onsd == IF a.onsd_values = None THEN Repeat(None, 6)
                ELSE Take(a.onsd_values[1], 6) \o Repeat(None, 6 - Len(a.onsd_values[1]))
        caps == IF a.capture_times = None THEN Repeat(Dash, 6)
                ELSE Take(a.capture_times[1], 6) \o Repeat(Dash, 6 - Len(a.capture_times[1]))
    IN  [imgs_all       |-> imgs.right \o imgs.left,
         onsd_values    |-> onsd,
         capture_times  |-> caps,
         ond_values     |-> normalize_list(a.ond_values, 6, None),
         onsd_px_values |-> normalize_list(a.onsd_px_values, 6, None),
         ond_px_values  |-> normalize_list(a.ond_px_values, 6, None),
         depth_values   |-> normalize_list(a.depth_values, 6, None),
         latency_values |-> normalize_list(a.latency_values, 6, None),
         status_values  |-> normalize_list(a.status_values, 6, Some(Dash)),
         right_avg      |-> eye_average(Take(onsd, 3)),
         left_avg       |-> eye_average(Drop(onsd, 3)),
         ret            |-> PngPdf]

\* ------------------------------------------------ use_cases/export_report
DecimalDigit(d) ==
    CASE d = 0 -> "0" [] d = 1 -> "1" [] d = 2 -> "2" [] d = 3 -> "3" [] d = 4 -> "4"
      [] d = 5 -> "5" [] d = 6 -> "6" [] d = 7 -> "7" [] d = 8 -> "8" [] OTHER -> "9"

\* f"{i}" for a natural number i.
RECURSIVE FormatInt(_)
FormatInt(i) ==
    IF i < 10 THEN DecimalDigit(i) ELSE FormatInt(i \div 10) \o DecimalDigit(i % 10)

\* [f"12:0{i}:00" for i in range(6)]
default_capture_times == [k \in 1..6 |-> "12:0" \o FormatInt(k - 1) \o ":00"]

\* while len(values) < 6: values.append(default)
pad_to_six(values, default) == values \o Repeat(default, 6 - Len(values))

\* Mutant of final_capture_times: a short list of capture times is kept and
\* completed from the time column of the measurement rows.
final_capture_times_from_rows(capture_times, measurements) ==
    LET given == IF capture_times = None THEN <<>> ELSE Take(capture_times[1], 6)
    IN  [k \in 1..6 |->
            IF k <= Len(given) THEN given[k]
            ELSE IF k <= Len(measurements) /\ measurements[k].time # None
                 THEN measurements[k].time[1]
                 ELSE default_capture_times[k]]

\* Mutant of final_capture_times: a time found in the measurement row wins.
final_capture_times_prefers_rows(capture_times, measurements) ==
    LET base == IF capture_times # None /\ Len(capture_times[1]) >= 6
                THEN Take(capture_times[1], 6) ELSE default_capture_times
    IN  [k \in 1..6 |->
            IF k <= Len(measurements) /\ measurements[k].time # None
            THEN measurements[k].time[1] ELSE base[k]]

\* Mutant of final_capture_times: a short list of capture times is kept, to
\* be filled up with the dash by the padding step.
final_capture_times_keeps_partial(capture_times, measurements) ==
    IF capture_times # None /\ Len(capture_times[1]) > 0
    THEN Take(capture_times[1], 6)
    ELSE default_capture_times

\* export_with_csv_measurements, "ALWAYS USE PROVIDED CAPTURE TIMES OR
\* DEFAULT": the first six supplied times when at least six are supplied,
\* else the default times.  The measurements are not consulted.
final_capture_times(capture_times, measurements) ==
    IF capture_times # None /\ Len(capture_times[1]) > 0 /\ Len(capture_times[1]) >= 6
    THEN Take(capture_times[1], 6)
    ELSE default_capture_times

\* Mutant of writer_arguments: the rows are matched to the slots by their
\* image identifier instead of their position.
writer_arguments_by_image_stem(images_right, images_left, measurements, capture_times) ==
    LET slot_of(stem) ==
            CASE stem = Some("R1") -> 1 [] stem = Some("R2") -> 2 [] stem = Some("R3") -> 3
              [] stem = Some("L1") -> 4 [] stem = Some("L2") -> 5 [] stem = Some("L3") -> 6
              [] OTHER -> 0
        rows_for(k) == {i \in 1..Len(measurements) : slot_of(measurements[i].image_stem) = k}
        at(k) == IF rows_for(k) = {} THEN Measurement
                 ELSE measurements[CHOOSE i \in rows_for(k) : \A j \in rows_for(k) : i <= j]
    IN  [images_right   |-> images_right,
         images_left    |-> images_left,
         onsd_values    |-> Some([k \in 1..6 |-> at(k).onsd_mm]),
         capture_times  |-> Some(pad_to_six(final_capture_times(capture_times, measurements), Dash)),
         ond_values     |-> Some([k \in 1..6 |-> at(k).ond_mm]),
         onsd_px_values |-> Some([k \in 1..6 |-> at(k).onsd_px]),
         ond_px_values  |-> Some([k \in 1..6 |-> at(k).ond_px]),
         depth_values   |-> Some([k \in 1..6 |-> at(k).depth_mm]),
         latency_values |-> Some([k \in 1..6 |-> at(k).latency_s]),
         status_values  |-> Some([k \in 1..6 |-> at(k).status])]

\* export_with_csv_measurements, from the loaded measurements to the keyword
\* arguments of writer.save_report: one list per field in row order, each
\* padded to six entries.
writer_arguments(images_right, images_left, measurements, capture_times) ==
    LET field(f(_)) == pad_to_six([i \in 1..Len(measurements) |-> f(measurements[i])], None)
        onsd_mm(m)   == m.onsd_mm
        ond_mm(m)    == m.ond_mm
        onsd_px(m)   == m.onsd_px
        ond_px(m)    == m.ond_px
        depth_mm(m)  == m.depth_mm
        latency_s(m) == m.latency_s
        status(m)    == m.status
    IN  [images_right   |-> images_right,
         images_left    |-> images_left,
         onsd_values    |-> Some(field(onsd_mm)),
         capture_times  |-> Some(pad_to_six(final_capture_times(capture_times, measurements), Dash)),
         ond_values     |-> Some(field(ond_mm)),
         onsd_px_values |-> Some(field(onsd_px)),
         ond_px_values  |-> Some(field(ond_px)),
         depth_values   |-> Some(field(depth_mm)),
         latency_values |-> Some(field(latency_s)),
         status_values  |-> Some(field(status))]

\* What a call on the report side leaves behind: the exception raised, the
\* arguments handed to the writer (None when the writer was not called),
\* the writer's normalised record and the returned paths.
NoRecord == None

\* ExportReport.export_with_csv_measurements
export_with_csv_measurements(images_right, images_left, csv, capture_times) ==
    LET loaded == load_measurements(csv, 6)
    IN  IF loaded.raised # NoError
        THEN [raised |-> loaded.raised, handed |-> None, record |-> NoRecord, ret |-> None,
              writer_calls |-> 0]
        ELSE LET args == writer_arguments(images_right, images_left, loaded.out, capture_times)
                 rec  == save_report(args)
             IN  [raised |-> NoError, handed |-> Some(args), record |-> Some(rec),
                  ret |-> Some(rec.ret), writer_calls |-> 1]

NotComplete == "Capture all 6 images before exporting."

\* The arguments of ExportReport.export that save_report receives: the two
\* buckets of the state and the two optional lists; every other list keeps
\* its default None.
export_arguments(images_right, images_left, onsd_values, capture_times) ==
    [images_right   |-> images_right,
     images_left    |-> images_left,
     onsd_values    |-> onsd_values,
     capture_times  |-> capture_times,
     ond_values     |-> None,
     onsd_px_values |-> None,
     ond_px_values  |-> None,
     depth_values   |-> None,
     latency_values |-> None,
     status_values  |-> None]

\* Mutant of export: the completeness check is missing.
export_unguarded(complete, images_right, images_left, onsd_values, capture_times) ==
    LET args == export_arguments(images_right, images_left, onsd_values, capture_times)
        rec  == save_report(args)
    IN  [raised |-> NoError, handed |-> Some(args), record |-> Some(rec),
         ret |-> Some(rec.ret), writer_calls |-> 1]

\* ExportReport.export; complete is state.is_complete(), the image lists
\* are the state's buckets.  OperationState has no onsd_values or
\* capture_times attribute, so the two hasattr branches are never taken.
export(complete, images_right, images_left, onsd_values, capture_times) ==
    IF ~complete
    THEN [raised |-> NotComplete, handed |-> None, record |-> NoRecord, ret |-> None,
          writer_calls |-> 0]
    ELSE LET args == export_arguments(images_right, images_left, onsd_values, capture_times)
             rec  == save_report(args)
         IN  [raised |-> NoError, handed |-> Some(args), record |-> Some(rec),
              ret |-> Some(rec.ret), writer_calls |-> 1]

\* ------------------------------------------------------- list objects
\* Python lists are objects: a variable refers to one, a slice, list(...),
\* a comprehension or + makes a new one, and append changes the one it is
\* called on.  A heap maps the names of the list objects that exist to their
\* contents; the caller's objects are images_right, images_left and (unless
\* it is None) capture_times.  A reference is None or <<name>>.
Alloc(heap, name, value) ==
    [n \in DOMAIN heap \cup {name} |-> IF n = name THEN value ELSE heap[n]]

\* Mutant of copy_prefix: the source list is cut down in place
\* (del values[length:]) before it is copied.
copy_prefix_truncates_source(heap, ref, name, length, default) ==
    IF ref = None THEN Alloc(heap, name, Repeat(default, length))
    ELSE Alloc([heap EXCEPT ![ref[1]] = Take(@, length)], name,
               Take(heap[ref[1]], length) \o Repeat(default, length - Len(heap[ref[1]])))

\* name = list(values[:length]) + [default] * max(0, length - len(values)),
\* or [default] * length when values is None: a new object.
copy_prefix(heap, ref, name, length, default) ==
    IF ref = None THEN Alloc(heap, name, Repeat(default, length))
    ELSE Alloc(heap, name,
               Take(heap[ref[1]], length) \o Repeat(default, length - Len(heap[ref[1]])))

\* while len(values) < 6: values.append(default), on the object itself.
append_while_short(heap, name, default) == [heap EXCEPT ![name] = pad_to_six(@, default)]

FieldLists ==
    <<"onsd_values", "ond_values", "onsd_px_values", "ond_px_values", "depth_values",
      "latency_values", "status_values">>

\* ReportWriter.save_report on list objects: r gives the reference passed
\* for each argument.  Every normalised list is a new object.
save_report_heap(heap, r) ==
    LET h1 == copy_prefix(heap, r.images_right, "writer.right", 3, None)
        h2 == copy_prefix(h1, r.images_left, "writer.left", 3, None)
        h3 == Alloc(h2, "writer.imgs_all", h2["writer.right"] \o h2["writer.left"])
        h4 == copy_prefix(h3, r.onsd_values, "writer.onsd_values", 6, None)
        h5 == copy_prefix(h4, r.capture_times, "writer.capture_times", 6, Dash)
        h6 == copy_prefix(h5, r.ond_values, "writer.ond_values", 6, None)
        h7 == copy_prefix(h6, r.onsd_px_values, "writer.onsd_px_values", 6, None)
        h8 == copy_prefix(h7, r.ond_px_values, "writer.ond_px_values", 6, None)
        h9 == copy_prefix(h8, r.depth_values, "writer.depth_values", 6, None)
        h10 == copy_prefix(h9, r.latency_values, "writer.latency_values", 6, None)
    IN  copy_prefix(h10, r.status_values, "writer.status_values", 6, Some(Dash))

\* Mutant of bind_final_capture_times: a supplied list is used as it is,
\* without a slice, so the padding that follows appends to the caller's list.
bind_final_capture_times_alias(heap, capture_times) ==
    IF capture_times # None /\ Len(heap[capture_times[1]]) > 0
    THEN [heap |-> heap, ref |-> capture_times]
    ELSE [heap |-> Alloc(heap, "final_capture_times", default_capture_times),
          ref  |-> Some("final_capture_times")]

\* export_with_csv_measurements: final_capture_times = capture_times[:6] or
\* the default list; either way a new object.
bind_final_capture_times(heap, capture_times) ==
    [heap |-> Alloc(heap, "final_capture_times",
                    IF capture_times # None /\ Len(heap[capture_times[1]]) > 0
                       /\ Len(heap[capture_times[1]]) >= 6
                    THEN Take(heap[capture_times[1]], 6)
                    ELSE default_capture_times),
     ref  |-> Some("final_capture_times")]

\* The field of every measurement, as the comprehension
\* [m.<field> for m in measurements] collects it.
FieldOf(measurements, list) ==
    [i \in 1..Len(measurements) |->
        CASE list = "onsd_values"    -> measurements[i].onsd_mm
          [] list = "ond_values"     -> measurements[i].ond_mm
          [] list = "onsd_px_values" -> measurements[i].onsd_px
          [] list = "ond_px_values"  -> measurements[i].ond_px
          [] list = "depth_values"   -> measurements[i].depth_mm
          [] list = "latency_values" -> measurements[i].latency_s
          [] OTHER                   -> measurements[i].status]

\* The comprehensions and the padding loops of export_with_csv_measurements
\* for the field lists k..7.
RECURSIVE extract_and_pad(_, _, _)
extract_and_pad(heap, measurements, k) ==
    IF k > Len(FieldLists) THEN heap
    ELSE extract_and_pad(
             append_while_short(Alloc(heap, FieldLists[k], FieldOf(measurements, FieldLists[k])),
                                FieldLists[k], None),
             measurements, k + 1)

\* ExportReport.export_with_csv_measurements on list objects: the heap the
\* call leaves behind.
export_with_csv_measurements_heap(heap, csv, capture_times) ==
    LET loaded == load_measurements(csv, 6)
    IN  IF loaded.raised # NoError THEN heap
        ELSE LET h1    == Alloc(heap, "measurements", loaded.out)
                 h2    == extract_and_pad(h1, loaded.out, 1)
                 bound == bind_final_capture_times(h2, capture_times)
                 h3    == append_while_short(bound.heap, bound.ref[1], Dash)
             IN  save_report_heap(h3,
                    [images_right   |-> Some("images_right"),
                     images_left    |-> Some("images_left"),
                     onsd_values    |-> Some("onsd_values"),
                     capture_times  |-> bound.ref,
                     ond_values     |-> Some("ond_values"),
                     onsd_px_values |-> Some("onsd_px_values"),
                     ond_px_values  |-> Some("ond_px_values"),
                     depth_values   |-> Some("depth_values"),
                     latency_values |-> Some("latency_values"),
                     status_values  |-> Some("status_values")])

\* ExportReport.export on list objects: the references are handed on to
\* save_report as they are.
export_heap(heap, complete, onsd_values, capture_times) ==
    IF ~complete THEN heap
    ELSE save_report_heap(heap,
            export_arguments(Some("images_right"), Some("images_left"),
                             onsd_values, capture_times))

\* ReportData.__post_init__ on list objects: the two attributes are bound to
\* new lists.
ReportData_heap(heap) ==
    copy_prefix(copy_prefix(heap, Some("images_right"), "self.right_images", 3, None),
                Some("images_left"), "self.left_images", 3, None)

\* ------------------------------------------------------------ the machine
VARIABLES
    state,      \* CaptureController.state (the OperationState)
    lastCall,   \* the controller method called last, its argument and outcome
    prev,       \* value of state when that call began
    inputs,     \* raw frames of the items now stored, in capture order
    clean,      \* no undo since the session was constructed or reset
    recovering, \* what the caller did since the last failed capture
    undoMark,   \* the state an undo started from, until the item is re-captured
    request,    \* what the caller of the report side holds
    result,     \* what the last call on the report side did
    twin,       \* the state of a second controller given the same commands
    gui         \* the attributes of the window (ULTRAWindow)

vars ==
    <<state, lastCall, prev, inputs, clean, recovering, undoMark, request, result, twin, gui>>

NoFrame == -1

Call(op, frame, out) ==
    [op |-> op, frame |-> frame, raised |-> out.raised, ret |-> out.ret,
     calls |-> out.calls, again |-> FALSE]

NoMark == [phase |-> "none", state |-> OperationState(initial_order), frame |-> NoFrame]

NoRequest ==
    [images_right |-> <<>>, images_left |-> <<>>,
     csv |-> [is_file |-> FALSE, rows |-> <<>>], capture_times |-> None,
     threshold_mm |-> DefaultThreshold]

NoObjects == <<>>

NoResult ==
    [op |-> "none", raised |-> NoError, handed |-> None, record |-> NoRecord, ret |-> None,
     page |-> None, before |-> NoObjects, heap |-> NoObjects, writer_calls |-> 0]

\* ULTRAWindow.__init__: the attributes the handlers use.  review_image is
\* not set before the first on_capture.
ULTRAWindow ==
    [current_frame |-> None, review_image |-> None, in_review |-> FALSE,
     captured_images |-> <<>>, capture_index |-> 0, onsd_values |-> <<>>,
     capture_times |-> <<>>]

\* The second controller and the window as they are constructed.
InitTwinAndWindow ==
    /\ twin = OperationState(initial_order)
    /\ gui = ULTRAWindow

\* CaptureController.__init__
InitController ==
    /\ state = OperationState(initial_order)
    /\ lastCall = Call("__init__", NoFrame, Outcome(state, NoError, <<>>, 0))
    /\ prev = state
    /\ inputs = <<>>
    /\ clean = TRUE
    /\ recovering = [phase |-> "no", undoRecovered |-> FALSE]
    /\ undoMark = NoMark

Init ==
    /\ InitController
    /\ request = NoRequest
    /\ result = NoResult
    /\ InitTwinAndWindow

\* The part every call has in common: the controller's state becomes the
\* outcome's state and the call is recorded.
Returns(op, frame, out) ==
    /\ state' = out.state
    /\ lastCall' = [Call(op, frame, out) EXCEPT !.again = (lastCall.op = op)]
    /\ prev' = state
    /\ request' = NoRequest
    /\ result' = NoResult
    /\ UNCHANGED <<twin, gui>>

Query(op, out) ==
    /\ Returns(op, NoFrame, out)
    /\ UNCHANGED <<inputs, clean, recovering, undoMark>>

ProgressVector == Query("progress_vector", progress_vector(state))

IsComplete == Query("is_complete", controller_is_complete(state))

NextExpectedLabel == Query("next_expected_label", next_expected_label(state))

ProcessOnly ==
    \E frame \in Frames :
        /\ Returns("process_only", frame, process_only(state, frame))
        /\ UNCHANGED <<inputs, clean, recovering, undoMark>>

Capture ==
    \E frame \in Frames :
        LET out == capture(state, frame)
            ok  == out.raised = NoError
        IN
        /\ Returns("capture", frame, out)
        /\ inputs' = IF ok THEN Append(inputs, frame) ELSE inputs
        /\ recovering' =
              CASE ~ok /\ recovering.phase = "undone" ->
                       [recovering EXCEPT !.phase = "stuck"]
                [] ~ok /\ recovering.phase = "reset" /\ Len(inputs) < 6 ->
                       [recovering EXCEPT !.phase = "stuck"]
                [] ~ok /\ recovering.phase = "stuck" -> recovering
                [] ~ok -> [recovering EXCEPT !.phase = "failed"]
                [] ok /\ recovering.phase = "undone" ->
                       [phase |-> "no", undoRecovered |-> TRUE]
                [] OTHER -> recovering
        /\ undoMark' =
              IF ok /\ undoMark.phase = "undone" /\ frame = undoMark.frame
              THEN [undoMark EXCEPT !.phase = "recaptured"]
              ELSE NoMark
        /\ UNCHANGED clean

Undo ==
    /\ Returns("undo", NoFrame, undo(state))
    /\ inputs' = IF Len(inputs) = 0 THEN inputs
                 ELSE SubSeq(inputs, 1, Len(inputs) - 1)
    /\ clean' = FALSE
    /\ recovering' =
          CASE recovering.phase = "failed" -> [recovering EXCEPT !.phase = "undone"]
            [] recovering.phase = "stuck"  -> recovering
            [] OTHER -> [recovering EXCEPT !.phase = "no"]
    /\ undoMark' =
          IF Len(inputs) = 0 THEN NoMark
          ELSE [phase |-> "undone", state |-> state, frame |-> inputs[Len(inputs)]]

Reset ==
    /\ Returns("reset", NoFrame, reset(state))
    /\ inputs' = <<>>
    /\ clean' = TRUE
    /\ recovering' =
          CASE recovering.phase = "failed" -> [recovering EXCEPT !.phase = "reset"]
            [] recovering.phase = "stuck"  -> recovering
            [] OTHER -> [recovering EXCEPT !.phase = "no"]
    /\ undoMark' = NoMark

Next ==
    \/ ProgressVector
    \/ IsComplete
    \/ NextExpectedLabel
    \/ ProcessOnly
    \/ Capture
    \/ Undo
    \/ Reset

Spec == Init /\ [][Next]_vars

\* ------------------------------------------------ the reconciliation run
\* The caller of the report side (the GUI, a test) holds image lists, a
\* measurement CSV and capture times, and calls export_with_csv_measurements,
\* the writer's save_report or builds a ReportData from them.

\* A list of n processed images of one eye, told apart by their position.
ProcessedImages(eye, n) == [i \in 1..n |-> Some([eye |-> eye, shot |-> i])]

TwoDigits(i) == IF i < 10 THEN "0" \o FormatInt(i) ELSE FormatInt(i)

\* The time the GUI recorded when image i was saved (strftime("%H:%M:%S")).
CaptureTimeText(i) == "10:15:" \o TwoDigits(i)

CaptureTimeList(n) == [i \in 1..n |-> CaptureTimeText(i)]

SlotName(i) ==
    CASE i = 1 -> "R1" [] i = 2 -> "R2" [] i = 3 -> "R3"
      [] i = 4 -> "L1" [] i = 5 -> "L2" [] i = 6 -> "L3" [] OTHER -> "X" \o FormatInt(i)

\* Row i of a measurement CSV.  The onsd_mm cell is given; the image
\* identifier either names slot i or the mirrored slot; the time column is
\* absent, holds a time of its own, or holds the capture time of the next
\* slot.  Every other cell is told apart by i; some are empty or no number.
CsvRow(i, onsd_cell, stems, times) ==
    [image_stem |-> CASE stems = "matching" -> Some(SlotName(i))
                      [] stems = "mirrored" -> Some(SlotName(Max(7 - i, 0)))
                      [] OTHER -> None,
     status     |-> IF i = 3 THEN Some("") ELSE Some("status " \o FormatInt(i)),
     ond_px     |-> Some(NumberCell(1000 + i)),
     onsd_px    |-> IF i = 4 THEN Some(JunkCell) ELSE Some(NumberCell(2000 + i)),
     ond_mm     |-> IF i = 2 THEN Some(EmptyCell) ELSE Some(NumberCell(300 + i)),
     onsd_mm    |-> onsd_cell,
     depth_mm   |-> IF i = 5 THEN Some(JunkCell) ELSE Some(NumberCell(4000 + i)),
     latency_s  |-> Some(NumberCell(10 + i)),
     time       |-> CASE times = "own" -> Some("08:30:" \o TwoDigits(i))
                      [] times = "next slot" -> Some(CaptureTimeText(i + 1))
                      [] OTHER -> None]

ExampleOnsd == <<237, 219, 492, 492, 492, 231>>

StandardOnsdCell(i) ==
    IF i <= 6 THEN Some(NumberCell(ExampleOnsd[i])) ELSE Some(NumberCell(500 + i))

StandardRows(n, stems, times) ==
    [i \in 1..n |-> CsvRow(i, StandardOnsdCell(i), stems, times)]

Request(images_right, images_left, rows, capture_times) ==
    [images_right |-> images_right, images_left |-> images_left,
     csv |-> [is_file |-> TRUE, rows |-> rows], capture_times |-> capture_times,
     threshold_mm |-> DefaultThreshold]

\* Image lists of every length against six standard rows and six times.
ImageRequests ==
    { Request(ProcessedImages("Right", nr), ProcessedImages("Left", nl),
              StandardRows(6, "matching", "own"), Some(CaptureTimeList(6))) :
        nr \in 0..MaxLen, nl \in 0..MaxLen }

OptionalTimeLists == {None} \cup { Some(CaptureTimeList(n)) : n \in 0..MaxLen }

\* Measurement rows and capture times of every length, in every style.
RowTimeRequests ==
    { Request(ProcessedImages("Right", 3), ProcessedImages("Left", 3),
              StandardRows(x[1], x[2], x[3]), x[4]) :
        x \in (0..MaxLen) \X {"matching", "mirrored"} \X {"absent", "own", "next slot"}
              \X OptionalTimeLists }

OnsdValues == {0, 1, 2, 219, 237, 400, 492}

OnsdCells == {Some(EmptyCell), Some(JunkCell)} \cup { Some(NumberCell(h)) : h \in OnsdValues }

UpToThree(S) == {<<>>} \cup { <<a>> : a \in S } \cup (S \X S) \cup (S \X S \X S)

FixedRight ==
    { <<Some(NumberCell(237)), Some(NumberCell(219)), Some(NumberCell(492))>>,
      <<Some(EmptyCell), Some(JunkCell), Some(EmptyCell)>> }

FixedLeft ==
    { <<Some(NumberCell(492)), Some(NumberCell(492)), Some(NumberCell(231))>>,
      <<Some(JunkCell), Some(EmptyCell), Some(EmptyCell)>>,
      <<>> }

\* The onsd_mm column: one eye's cells are free, the other eye's are fixed.
OnsdColumns ==
    { r \o l : r \in { t \in UpToThree(OnsdCells) : Len(t) = 3 }, l \in FixedLeft }
    \cup { r : r \in UpToThree(OnsdCells) }
    \cup { r \o l : r \in FixedRight, l \in UpToThree(OnsdCells) }

ValueRequests ==
    { Request(ProcessedImages("Right", 3), ProcessedImages("Left", 3),
              [i \in 1..Len(col) |-> CsvRow(i, col[i], "mirrored", "own")],
              Some(CaptureTimeList(6))) :
        col \in OnsdColumns }

\* The path given for the measurement CSV is no file.
MissingFileRequest ==
    [images_right |-> ProcessedImages("Right", 3), images_left |-> ProcessedImages("Left", 3),
     csv |-> [is_file |-> FALSE, rows |-> <<>>], capture_times |-> None,
     threshold_mm |-> DefaultThreshold]

\* Thresholds a writer is constructed with: the default, and the two
\* averages of the sample measurements.
Thresholds == {DefaultThreshold, 316, 405}

\* The onsd_mm cells of one eye that decide the finding: one value around
\* a threshold, the sample values, or nothing.
FindingCells ==
    { <<Some(NumberCell(h)), Some(EmptyCell), Some(EmptyCell)>> :
        h \in {300, 315, 317, 404, 406, 599, 600, 601, 700} }
    \cup { <<Some(NumberCell(237)), Some(NumberCell(219)), Some(NumberCell(492))>>,
           <<Some(NumberCell(492)), Some(NumberCell(492)), Some(NumberCell(231))>>,
           <<Some(EmptyCell), Some(JunkCell), Some(EmptyCell)>> }

\* Writers of every threshold against the columns that decide the finding.
FindingRequests ==
    { [Request(ProcessedImages("Right", 3), ProcessedImages("Left", 3),
               [i \in 1..6 |-> CsvRow(i, (r \o l)[i], "matching", "own")],
               Some(CaptureTimeList(6)))
         EXCEPT !.threshold_mm = t] :
        r \in FindingCells, l \in FindingCells, t \in Thresholds }

Requests ==
    ImageRequests \cup RowTimeRequests \cup ValueRequests \cup FindingRequests
    \cup {MissingFileRequest}

\* The lists a caller passes to save_report directly: one entry per row of
\* the CSV, not cut to six; None for every list when there is no CSV.
DirectArguments(r) ==
    LET rows == r.csv.rows
        list(f(_)) == IF r.csv.is_file THEN Some([i \in 1..Len(rows) |-> f(rows[i])]) ELSE None
        onsd_mm(row)   == to_float(row.onsd_mm)
        ond_mm(row)    == to_float(row.ond_mm)
        onsd_px(row)   == to_float(row.onsd_px)
        ond_px(row)    == to_float(row.ond_px)
        depth_mm(row)  == to_float(row.depth_mm)
        latency_s(row) == to_float(row.latency_s)
        status(row)    == row.status
    IN  [images_right   |-> r.images_right,
         images_left    |-> r.images_left,
         onsd_values    |-> list(onsd_mm),
         capture_times  |-> r.capture_times,
         ond_values     |-> list(ond_mm),
         onsd_px_values |-> list(onsd_px),
         ond_px_values  |-> list(ond_px),
         depth_values   |-> list(depth_mm),
         latency_values |-> list(latency_s),
         status_values  |-> list(status)]

\* The list objects the caller of export_with_csv_measurements holds.
CallerHeap(r) ==
    IF r.capture_times = None
    THEN [images_right |-> r.images_right, images_left |-> r.images_left]
    ELSE [images_right |-> r.images_right, images_left |-> r.images_left,
          capture_times |-> r.capture_times[1]]

CallerReference(heap, name) == IF name \in DOMAIN heap THEN Some(name) ELSE None

\* The list objects the caller of save_report holds: the lists of
\* DirectArguments that are not None.
RECURSIVE DirectHeap(_, _, _)
DirectHeap(heap, a, k) ==
    IF k > Len(FieldLists) THEN heap
    ELSE DirectHeap(IF a[FieldLists[k]] = None THEN heap
                    ELSE Alloc(heap, FieldLists[k], a[FieldLists[k]][1]),
                    a, k + 1)

InitReport ==
    /\ InitController
    /\ request \in Requests
    /\ result = NoResult
    /\ InitTwinAndWindow

\* What a call of export_with_csv_measurements with the lists of r does.
ExportWithCsvResult(r) ==
    LET out == export_with_csv_measurements(r.images_right, r.images_left, r.csv,
                                            r.capture_times)
    IN  [op |-> "export_with_csv_measurements",
         page |-> written_page(r.threshold_mm, out.record),
         before |-> CallerHeap(r),
         heap |-> export_with_csv_measurements_heap(
                      CallerHeap(r), r.csv,
                      CallerReference(CallerHeap(r), "capture_times"))] @@ out

ExportWithCsvMeasurements ==
    /\ result' = ExportWithCsvResult(request)
    /\ UNCHANGED <<request, state, lastCall, prev, inputs, clean, recovering, undoMark,
                   twin, gui>>

SaveReport ==
    /\ result' = LET args == DirectArguments(request)
                     rec  == save_report(args)
                     held == DirectHeap(CallerHeap(request), args, 1)
                 IN  [op |-> "save_report", raised |-> NoError, handed |-> Some(args),
                      record |-> Some(rec), ret |-> Some(rec.ret),
                      page |-> written_page(request.threshold_mm, Some(rec)),
                      writer_calls |-> 1,
                      before |-> held,
                      heap |-> save_report_heap(held,
                                  [n \in DOMAIN args |-> CallerReference(held, n)])]
    /\ UNCHANGED <<request, state, lastCall, prev, inputs, clean, recovering, undoMark,
                   twin, gui>>

BuildReportData ==
    /\ result' = [op |-> "ReportData", raised |-> NoError, handed |-> None,
                  record |-> Some([imgs_all |-> ReportData_all_images(request.images_right,
                                                                     request.images_left)]),
                  ret |-> None, page |-> None, writer_calls |-> 0,
                  before |-> CallerHeap(request),
                  heap |-> ReportData_heap(CallerHeap(request))]
    /\ UNCHANGED <<request, state, lastCall, prev, inputs, clean, recovering, undoMark,
                   twin, gui>>

NextReport ==
    \/ ExportWithCsvMeasurements
    \/ SaveReport
    \/ BuildReportData

SpecReport == InitReport /\ [][NextReport]_vars

\* ------------------------------------------------- the patient report
\* A measurement CSV is loaded into a PatientReport, or a PatientReport is
\* built by hand from its rows.

\* CSVs of every length, with and without image identifiers and times, and
\* the path that is no file.
PatientRequests ==
    { r \in RowTimeRequests : r.capture_times = None } \cup {MissingFileRequest}

InitPatient ==
    /\ InitController
    /\ request \in PatientRequests
    /\ result = NoResult
    /\ InitTwinAndWindow

\* A result of the report side that involves no writer and no list of the
\* caller.
EntityResult(op, raised, record) ==
    [op |-> op, raised |-> raised, handed |-> None, record |-> record, ret |-> None,
     page |-> None, writer_calls |-> 0, before |-> NoObjects, heap |-> NoObjects]

\* loader.load_patient_report(patient_id) with the default max_rows = 6.
LoadPatientReport ==
    /\ result' = LET out == load_patient_report(request.csv, 6)
                 IN  EntityResult("load_patient_report", out.raised,
                                  IF out.report = None THEN NoRecord
                                  ELSE Some(PatientReport_lists(out.report[1])))
    /\ UNCHANGED <<request, state, lastCall, prev, inputs, clean, recovering, undoMark,
                   twin, gui>>

\* The most measurements a caller puts into one eye of a PatientReport.
MaxPerEye == 5

\* PatientReport(right_eye=EyeMeasurements(...), left_eye=EyeMeasurements(...))
\* built by hand from all rows of the CSV: the first k for the right eye, the
\* others for the left eye.
BuildPatientReport ==
    /\ request.csv.is_file
    /\ \E k \in 0..MaxPerEye :
          LET all == load_measurements(request.csv, Len(request.csv.rows)).out
          IN  /\ k <= Len(all)
              /\ Len(all) - k <= MaxPerEye
              /\ result' = EntityResult("PatientReport", NoError,
                               Some(PatientReport_lists([right_eye |-> Take(all, k),
                                                         left_eye  |-> Drop(all, k)])))
    /\ UNCHANGED <<request, state, lastCall, prev, inputs, clean, recovering, undoMark,
                   twin, gui>>

NextPatient ==
    \/ LoadPatientReport
    \/ BuildPatientReport

SpecPatient == InitPatient /\ [][NextPatient]_vars

\* ------------------------------------------------- session, then report
\* A session is captured and its buckets are exported: by
\* ExportReport.export, or together with a measurement CSV and the capture
\* times by export_with_csv_measurements, as the window does.

\* The buckets hold arrays; a list of optional images holds them as such.
Wrap(images) == [i \in 1..Len(images) |-> Some(images[i])]

Unwrap(images) == [i \in 1..Len(images) |-> images[i][1]]

\* The state with the buckets as a call has left the two list objects.
StateAfter(s, heap) ==
    [s EXCEPT !.images_right = Unwrap(heap.images_right),
              !.images_left = Unwrap(heap.images_left)]

SessionRequest(s, csv, capture_times) ==
    [images_right |-> Wrap(s.images_right), images_left |-> Wrap(s.images_left),
     csv |-> csv, capture_times |-> capture_times, threshold_mm |-> DefaultThreshold]

\* The exporter keeps nothing between calls, so a second export of the same
\* session does what the first did: one export is explored after each call
\* on the controller (result is NoResult until then).

\* The ONSD values and capture times a caller of export may pass: neither,
\* or the sample values and a list of capture times that is longer than the
\* session (two entries more than there are stored images).
SessionLists(s) ==
    { [onsd_values |-> None, capture_times |-> None],
      [onsd_values |-> Some([i \in 1..6 |-> Some(ExampleOnsd[i])]),
       capture_times |-> Some(CaptureTimeList(s.cursor + 2))] }

Export ==
    \E lists \in SessionLists(state) :
        LET onsd_values   == lists.onsd_values
            capture_times == lists.capture_times
            r      == SessionRequest(state, [is_file |-> FALSE, rows |-> <<>>], capture_times)
            held   == IF onsd_values = None THEN CallerHeap(r)
                      ELSE Alloc(CallerHeap(r), "onsd_values", onsd_values[1])
            out    == export(is_complete(state), r.images_right, r.images_left,
                             onsd_values, capture_times)
            heap   == export_heap(held, is_complete(state),
                                  CallerReference(held, "onsd_values"),
                                  CallerReference(held, "capture_times"))
        IN
        /\ result = NoResult
        /\ request' = r
        /\ result' = [op |-> "export", page |-> written_page(r.threshold_mm, out.record),
                      before |-> held, heap |-> heap] @@ out
        /\ state' = StateAfter(state, result'.heap)
        /\ UNCHANGED <<lastCall, prev, inputs, clean, recovering, undoMark, twin, gui>>

ExportSessionWithCsv ==
    LET r == SessionRequest(state,
                            [is_file |-> TRUE, rows |-> StandardRows(6, "matching", "own")],
                            Some(CaptureTimeList(state.cursor)))
    IN
        /\ result = NoResult
        /\ request' = r
        /\ result' = ExportWithCsvResult(r)
        /\ state' = StateAfter(state, result'.heap)
        /\ UNCHANGED <<lastCall, prev, inputs, clean, recovering, undoMark, twin, gui>>

NextSession ==
    \/ Capture
    \/ IsComplete
    \/ NextExpectedLabel
    \/ Export
    \/ ExportSessionWithCsv

SpecSession == Init /\ [][NextSession]_vars

\* ------------------------------------------------------- two sessions
\* Two controllers are given the same commands.  The first is given any
\* frames; the second is given the same frame every time.
ReferenceFrame == 0

\* The second controller follows the call the first one has made.
TwinReturns(op, frame, out, other) ==
    /\ state' = out.state
    /\ twin' = other.state
    /\ lastCall' = [Call(op, frame, out) EXCEPT !.again = (lastCall.op = op)]
    /\ prev' = state
    /\ UNCHANGED <<recovering, undoMark, request, result, gui>>

TwinProcessOnly ==
    \E frame \in Frames :
        /\ TwinReturns("process_only", frame, process_only(state, frame),
                       process_only(twin, ReferenceFrame))
        /\ UNCHANGED <<inputs, clean>>

TwinCapture ==
    \E frame \in Frames :
        /\ TwinReturns("capture", frame, capture(state, frame), capture(twin, ReferenceFrame))
        /\ inputs' = IF capture(state, frame).raised = NoError
                     THEN Append(inputs, frame) ELSE inputs
        /\ UNCHANGED clean

TwinUndo ==
    /\ TwinReturns("undo", NoFrame, undo(state), undo(twin))
    /\ inputs' = IF Len(inputs) = 0 THEN inputs ELSE SubSeq(inputs, 1, Len(inputs) - 1)
    /\ clean' = FALSE

TwinReset ==
    /\ TwinReturns("reset", NoFrame, reset(state), reset(twin))
    /\ inputs' = <<>>
    /\ clean' = TRUE

NextTwin ==
    \/ TwinProcessOnly
    \/ TwinCapture
    \/ TwinUndo
    \/ TwinReset

SpecTwin == Init /\ [][NextTwin]_vars

\* ------------------------------------------------------- undo anywhere
\* undo is called on a controller whose state was put together by hand:
\* any cursor 0..6 with any buckets of up to three items.
Buckets == UNION { [1..n -> { process(frame) : frame \in Frames }] : n \in 0..3 }

AnyStates ==
    { [order |-> initial_order, cursor |-> c, images_right |-> r, images_left |-> l] :
        c \in 0..6, r \in Buckets, l \in Buckets }

InitAnyState ==
    /\ state \in AnyStates
    /\ lastCall = Call("__init__", NoFrame, Outcome(state, NoError, <<>>, 0))
    /\ prev = state
    /\ inputs = <<>>
    /\ clean = TRUE
    /\ recovering = [phase |-> "no", undoRecovered |-> FALSE]
    /\ undoMark = NoMark
    /\ request = NoRequest
    /\ result = NoResult
    /\ InitTwinAndWindow

NextAnyState ==
    \/ Undo

SpecAnyState == InitAnyState /\ [][NextAnyState]_vars

\* ---------------------------------------------------------- the window
\* ULTRAWindow (frameworks/gui_qt.py) drives one controller and one
\* exporter.  Its handlers are called by the timer, by the buttons and the
\* Space shortcut, or directly; each is modelled whole, with the calls it
\* makes on the controller and on the exporter.

\* What a handler leaves behind: the window's attributes, the controller's
\* state, the message of the exception it caught and showed (NoError when
\* there was none) and the lists it handed to the exporter (None when the
\* exporter was not called).
Handled(w, s, caught, exported) ==
    [gui |-> w, state |-> s, caught |-> caught, exported |-> exported]

\* ULTRAProcessor.get_last_onsd_value: last_onsd_value is None from the
\* constructor on, and only ULTRAProcessor.process_only assigns it, which
\* neither the controller nor the window calls.
get_last_onsd_value == None

\* Mutant of on_frame: the timer's frame is taken during review as well.
on_frame_during_review(w, s, read) ==
    IF read = None
    THEN Handled(w, s, NoError, None)
    ELSE Handled([w EXCEPT !.current_frame = read],
                 process_only(s, read[1]).state, NoError, None)

\* ULTRAWindow.on_frame; read is what camera.read() returns.
on_frame(w, s, read) ==
    IF w.in_review
    THEN Handled(w, s, NoError, None)
    ELSE IF read = None
         THEN Handled(w, s, NoError, None)
         ELSE Handled([w EXCEPT !.current_frame = read],
                      process_only(s, read[1]).state, NoError, None)

\* Mutant of on_capture: the frame is committed as soon as it is captured.
on_capture_commits(w, s) ==
    IF w.current_frame = None \/ w.in_review
    THEN Handled(w, s, NoError, None)
    ELSE LET out == capture(s, w.current_frame[1])
         IN  IF out.raised # NoError
             THEN Handled(w, s, out.raised, None)
             ELSE Handled([w EXCEPT !.review_image = Some(process(w.current_frame[1])),
                                    !.in_review = TRUE,
                                    !.captured_images =
                                        Append(@, process(w.current_frame[1])),
                                    !.capture_index = @ + 1],
                          out.state, NoError, None)

\* ULTRAWindow.on_capture: the review image is a copy of what process_only
\* returns for the current frame.
on_capture(w, s) ==
    IF w.current_frame = None \/ w.in_review
    THEN Handled(w, s, NoError, None)
    ELSE LET out == process_only(s, w.current_frame[1])
         IN  Handled([w EXCEPT !.review_image = Some(out.ret[1]), !.in_review = TRUE],
                     out.state, NoError, None)

\* Mutant of on_delete: the delete takes back the last saved image.
on_delete_undoes(w, s) ==
    Handled([w EXCEPT !.in_review = FALSE,
                      !.capture_index = IF @ > 0 THEN @ - 1 ELSE @,
                      !.captured_images = IF @ = <<>> THEN @ ELSE SubSeq(@, 1, Len(@) - 1),
                      !.onsd_values = IF @ = <<>> THEN @ ELSE SubSeq(@, 1, Len(@) - 1),
                      !.capture_times = IF @ = <<>> THEN @ ELSE SubSeq(@, 1, Len(@) - 1)],
            undo(s).state, NoError, None)

\* ULTRAWindow.on_delete
on_delete(w, s) == Handled([w EXCEPT !.in_review = FALSE], s, NoError, None)

\* ULTRAWindow.reset_to_initial_state: current_frame and review_image are
\* not among the attributes it assigns.
reset_to_initial_state(w, s) ==
    Handled([w EXCEPT !.captured_images = <<>>, !.capture_index = 0, !.in_review = FALSE,
                      !.onsd_values = <<>>, !.capture_times = <<>>],
            reset(s).state, NoError, None)

\* The AttributeError of reading self.review_image before any on_capture
\* has assigned it.
NoReviewImage == "'ULTRAWindow' object has no attribute 'review_image'"

\* What the user and the file system answer when the sixth image is saved:
\* the folder dialog is cancelled or gives a folder, and the measurement
\* CSV is absent or is what csv holds.
Answer(out_dir, exists, csv) == [out_dir |-> out_dir, exists |-> exists, csv |-> csv]

\* ULTRAWindow.on_save with the number of saved images at which the report
\* is exported and the session reset left open; current_time is the
\* formatted clock reading and answer what the dialog and the file system
\* answer.  The exporter is called with the controller's two buckets and
\* the window's capture times; an exception it raises is caught and shown
\* there.
on_save_at(full, w, s, current_time, answer) ==
    IF w.current_frame = None
    THEN Handled(w, s, NoError, None)
    ELSE LET out == capture(s, w.current_frame[1])
         IN  IF out.raised # NoError
             THEN Handled(w, s, out.raised, None)
             ELSE IF w.review_image = None
             THEN Handled(w, out.state, NoReviewImage, None)
             ELSE LET saved ==
                          [w EXCEPT !.captured_images = Append(@, w.review_image[1]),
                                    !.onsd_values = Append(@, get_last_onsd_value),
                                    !.capture_times = Append(@, current_time),
                                    !.capture_index = @ + 1,
                                    !.in_review = FALSE]
                  IN  IF saved.capture_index >= full
                      THEN LET after == reset_to_initial_state(saved, out.state)
                           IN  IF answer.out_dir /\ answer.exists
                               THEN Handled(after.gui, after.state, NoError,
                                            Some(SessionRequest(out.state, answer.csv,
                                                                Some(saved.capture_times))))
                               ELSE after
                      ELSE Handled(saved, out.state, NoError, None)

\* Mutant of on_save: the report is exported one image early.
on_save_exports_early(w, s, current_time, answer) ==
    on_save_at(5, w, s, current_time, answer)

\* ULTRAWindow.on_save: the sixth saved image ends the session.
on_save(w, s, current_time, answer) == on_save_at(6, w, s, current_time, answer)

\* A handler's call as lastCall records it: window is the window when the
\* handler began, raised the message of the exception it caught, earlier
\* the window and the controller's state before the handler that ran just
\* before this one (kept for on_delete right after on_capture).
HandlerCall(op, w, frame, caught, earlier) ==
    [op |-> op, frame |-> frame, raised |-> caught, ret |-> <<>>, calls |-> 0,
     again |-> FALSE, window |-> w, earlier |-> earlier]

FrameOf(w) == IF w.current_frame = None THEN NoFrame ELSE w.current_frame[1]

\* The part every handler has in common; for a handler that does not reach
\* the exporter, nothing is held or done on the report side.
Handles(op, frame, done) ==
    /\ gui' = done.gui
    /\ state' = done.state
    /\ prev' = state
    /\ lastCall' = HandlerCall(op, gui, frame, done.caught,
                               IF op = "on_delete" /\ lastCall.op = "on_capture"
                               THEN Some([window |-> lastCall.window, state |-> prev])
                               ELSE None)
    /\ UNCHANGED <<recovering, undoMark, twin>>

Quiet == request' = NoRequest /\ result' = NoResult

\* What camera.read() returns: None when there is no signal, or a picture.
\* The handlers never look inside a frame; the scene in front of the probe
\* changes at most once, from picture 0 to picture 1, which is what it
\* takes to tell a stale frame from the current one.
CameraReads(w) ==
    {None} \cup { Some(frame) : frame \in { f \in {0, 1} : f >= FrameOf(w) } }

OnFrame ==
    \E read \in CameraReads(gui) :
        /\ Handles("on_frame", IF read = None THEN NoFrame ELSE read[1],
                   on_frame(gui, state, read))
        /\ Quiet
        /\ UNCHANGED <<inputs, clean>>

OnCapture ==
    /\ Handles("on_capture", FrameOf(gui), on_capture(gui, state))
    /\ Quiet
    /\ UNCHANGED <<inputs, clean>>

OnDelete ==
    /\ Handles("on_delete", NoFrame, on_delete(gui, state))
    /\ Quiet
    /\ UNCHANGED <<inputs, clean>>

\* What a save may meet when it asks: the dialog cancelled, no measurement
\* CSV, a path that exists without being a file, a CSV of two rows or of
\* six.
Answers ==
    { Answer(FALSE, FALSE, [is_file |-> FALSE, rows |-> <<>>]),
      Answer(TRUE, FALSE, [is_file |-> FALSE, rows |-> <<>>]),
      Answer(TRUE, TRUE, [is_file |-> FALSE, rows |-> <<>>]),
      Answer(TRUE, TRUE, [is_file |-> TRUE, rows |-> StandardRows(2, "matching", "own")]),
      Answer(TRUE, TRUE, [is_file |-> TRUE, rows |-> StandardRows(6, "matching", "own")]) }

\* The clock is read once per save; the readings of a session differ.  An
\* exception of the exporter is the one the handler catches and shows.
OnSave ==
    \E answer \in Answers :
        LET done == on_save(gui, state, CaptureTimeText(Len(gui.capture_times) + 1), answer)
        IN  /\ IF done.exported = None
               THEN /\ Quiet
                    /\ Handles("on_save", FrameOf(gui), done)
               ELSE /\ request' = done.exported[1]
                    /\ result' = ExportWithCsvResult(request')
                    /\ Handles("on_save", FrameOf(gui),
                               [done EXCEPT !.caught = result'.raised])
            /\ inputs' = IF done.state.cursor > state.cursor
                         THEN Append(inputs, FrameOf(gui))
                         ELSE IF done.state.cursor < state.cursor THEN <<>> ELSE inputs
            /\ clean' = (clean \/ done.state.cursor < state.cursor)

NextGui ==
    \/ OnFrame
    \/ OnCapture
    \/ OnSave
    \/ OnDelete

SpecGui == Init /\ [][NextGui]_vars

\* ------------------------------------------------------------ properties
Min(a, b) == IF a <= b THEN a ELSE b

CanonicalOrder ==
    << [eye |-> "Right", index_in_eye |-> 1], [eye |-> "Right", index_in_eye |-> 2],
       [eye |-> "Right", index_in_eye |-> 3], [eye |-> "Left", index_in_eye |-> 1],
       [eye |-> "Left", index_in_eye |-> 2], [eye |-> "Left", index_in_eye |-> 3] >>

Succeeded == lastCall.raised = NoError

\* C1: from a fresh session, after k successful captures (0 <= k <= 6) with
\* no undo in between, cursor = k, the two buckets hold k items together, the
\* first min(k,3) captured items are in images_right in capture order and
\* the remaining ones are in images_left in capture order.
C1_CapturesFillRightThenLeft ==
    clean =>
        LET k == Len(inputs)
            r == Min(k, 3)
        IN  /\ k \in 0..6
            /\ state.cursor = k
            /\ Len(state.images_right) + Len(state.images_left) = k
            /\ Len(state.images_right) = r
            /\ Len(state.images_left) = k - r
            /\ \A i \in 1..r : state.images_right[i] = process(inputs[i])
            /\ \A i \in 1..(k - r) : state.images_left[i] = process(inputs[3 + i])

C1_Witness ==
    /\ clean
    /\ Len(inputs) = 6
    /\ lastCall.op = "capture"
    /\ inputs[3] # inputs[4]
    /\ state.images_left[1] = process(inputs[4])

\* C2: capture called at cursor = 6 raises 'All 6 images already captured.',
\* leaves cursor, images_right, images_left and order as they were and does
\* not invoke the processor.
C2_CaptureWhenCompleteFails ==
    (lastCall.op = "capture" /\ prev.cursor = 6) =>
        /\ lastCall.raised = "All 6 images already captured."
        /\ state = prev
        /\ state.cursor = 6
        /\ lastCall.calls = 0

C2_Witness ==
    /\ lastCall.op = "capture"
    /\ prev.cursor = 6
    /\ lastCall.raised = "All 6 images already captured."

\* C3: in every reachable state 0 <= cursor <= 6 and
\* len(images_right) + len(images_left) = cursor.
C3_CursorCountsStoredItems ==
    /\ state.cursor \in 0..6
    /\ Len(state.images_right) + Len(state.images_left) = state.cursor

C3_Witness ==
    /\ lastCall.op = "undo"
    /\ prev.cursor = 6
    /\ state.cursor = 5
    /\ recovering.phase = "undone"

\* C4: undo followed by capture of the input the undone item was produced
\* from gives back the state the undo started from, by value.
C4_UndoThenCaptureRestores ==
    undoMark.phase = "recaptured" => state = undoMark.state

C4_Witness ==
    /\ undoMark.phase = "recaptured"
    /\ lastCall.op = "capture"
    /\ state.cursor = 4
    /\ state = undoMark.state

\* C5: undo at cursor = 0 changes nothing; at cursor >= 1 it decrements the
\* cursor by one and removes exactly the last item of the bucket of the eye
\* of order[cursor] (cursor after the decrement); the other bucket, the
\* earlier items and the order stay.
C5_UndoRemovesLastOfVacatedSlot ==
    lastCall.op = "undo" =>
        /\ Succeeded
        /\ prev.cursor = 0 => state = prev
        /\ prev.cursor >= 1 =>
              /\ state.cursor = prev.cursor - 1
              /\ state.order = prev.order
              /\ IF state.order[state.cursor + 1].eye = "Right"
                 THEN /\ Len(prev.images_right) >= 1
                      /\ state.images_right =
                            SubSeq(prev.images_right, 1, Len(prev.images_right) - 1)
                      /\ state.images_left = prev.images_left
                 ELSE /\ Len(prev.images_left) >= 1
                      /\ state.images_left =
                            SubSeq(prev.images_left, 1, Len(prev.images_left) - 1)
                      /\ state.images_right = prev.images_right

C5_Witness ==
    /\ lastCall.op = "undo"
    /\ prev.cursor = 4
    /\ state.cursor = 3
    /\ Len(state.images_right) = 3
    /\ Len(state.images_left) = 0

\* C6: reset always leaves cursor = 0, both buckets empty and the canonical
\* six-slot order, whatever the state before (any cursor, also the complete
\* state right after a failed capture); that is the state of a newly
\* constructed controller.
C6_ResetYieldsFreshState ==
    lastCall.op = "reset" =>
        /\ Succeeded
        /\ state.cursor = 0
        /\ state.images_right = <<>>
        /\ state.images_left = <<>>
        /\ state.order = CanonicalOrder
        /\ state = OperationState(initial_order)

C6_Witness ==
    /\ lastCall.op = "reset"
    /\ prev.cursor = 6
    /\ Len(prev.images_left) = 3
    /\ recovering.phase = "reset"
    /\ state.cursor = 0

\* C7: process_only leaves cursor, images_right, images_left and order as
\* they were, however often it is called in a row.
C7_ProcessOnlyKeepsState ==
    lastCall.op = "process_only" =>
        /\ Succeeded
        /\ state = prev
        /\ Len(state.images_right) + Len(state.images_left) = Len(inputs)
        /\ lastCall.ret = <<process(lastCall.frame)>>

C7_Witness ==
    /\ lastCall.op = "process_only"
    /\ lastCall.again
    /\ state.cursor = 2
    /\ state = prev

\* Six captures in a row from state s all succeed and complete the session.
RECURSIVE CapturesSucceed(_, _)
CapturesSucceed(s, n) ==
    IF n = 0 THEN is_complete(s)
    ELSE \A x \in Frames :
            /\ capture(s, x).raised = NoError
            /\ CapturesSucceed(capture(s, x).state, n - 1)

\* C8: the over-capture error is recoverable.  After a capture failed at
\* cursor = 6, a following undo leaves cursor 5 and the next capture
\* succeeds, and a following reset leaves cursor 0 and the next six captures
\* succeed; in no reachable state does every command fail.
C8_OverCaptureIsRecoverable ==
    /\ recovering.phase # "stuck"
    /\ (lastCall.op = "capture" /\ ~Succeeded) =>
          /\ state.cursor = 6
          /\ undo(state).raised = NoError
          /\ undo(state).state.cursor = 5
          /\ \A x \in Frames : capture(undo(state).state, x).raised = NoError
          /\ reset(state).raised = NoError
          /\ reset(state).state.cursor = 0
          /\ CapturesSucceed(reset(state).state, 6)
    /\ (recovering.phase = "undone" /\ lastCall.op = "undo") => state.cursor = 5
    /\ (recovering.phase = "reset" /\ lastCall.op = "reset") => state.cursor = 0
    /\ \A x \in Frames :
          \/ capture(state, x).raised = NoError
          \/ /\ undo(state).raised = NoError
             /\ capture(undo(state).state, x).raised = NoError

C8_Witness ==
    /\ recovering.undoRecovered
    /\ recovering.phase = "reset"
    /\ clean
    /\ Len(inputs) = 6
    /\ state.cursor = 6
    /\ lastCall.op = "capture"
    /\ Succeeded

\* C9: a successful capture raises the cursor by exactly 1, an undo at
\* cursor >= 1 lowers it by exactly 1, reset sets it to 0, and every other
\* call (failed capture, undo at 0, process_only, the queries) leaves it
\* unchanged.
C9_CursorStepsByOne ==
    state.cursor =
        CASE lastCall.op = "capture" /\ Succeeded -> prev.cursor + 1
          [] lastCall.op = "undo" /\ prev.cursor >= 1 -> prev.cursor - 1
          [] lastCall.op = "reset" -> 0
          [] OTHER -> prev.cursor

C9_Witness ==
    /\ lastCall.op = "capture"
    /\ Succeeded
    /\ prev.cursor = 3
    /\ state.cursor = 4
    /\ ~clean

\* C10: progress_vector returns (min(cursor + 1, 6), 6) and changes no
\* state; its first component is in 1..6 and never above the total.
C10_ProgressVector ==
    lastCall.op = "progress_vector" =>
        /\ Succeeded
        /\ lastCall.ret = <<Min(prev.cursor + 1, 6), 6>>
        /\ state = prev
        /\ lastCall.ret[1] \in 1..6
        /\ lastCall.ret[1] <= lastCall.ret[2]

C10_Witness ==
    /\ lastCall.op = "progress_vector"
    /\ state.cursor = 6
    /\ lastCall.ret = <<6, 6>>

\* C11: next_expected_label never fails and changes no state; at cursor
\* 0..2 it returns 'Right #1', 'Right #2', 'Right #3', at cursor 3..5
\* 'Left #1', 'Left #2', 'Left #3', and it returns 'Completed' exactly when
\* the session is complete (cursor >= 6).
C11_NextExpectedLabel ==
    lastCall.op = "next_expected_label" =>
        /\ Succeeded
        /\ state = prev
        /\ lastCall.ret =
              CASE prev.cursor = 0 -> <<"Right #1">>
                [] prev.cursor = 1 -> <<"Right #2">>
                [] prev.cursor = 2 -> <<"Right #3">>
                [] prev.cursor = 3 -> <<"Left #1">>
                [] prev.cursor = 4 -> <<"Left #2">>
                [] prev.cursor = 5 -> <<"Left #3">>
                [] OTHER -> <<"Completed">>
        /\ (lastCall.ret = <<"Completed">>) <=> (prev.cursor >= 6)

C11_Witness ==
    /\ lastCall.op = "next_expected_label"
    /\ state.cursor = 4
    /\ lastCall.ret = <<"Left #2">>

\* C12: initial_order is the sequence Right 1, Right 2, Right 3, Left 1,
\* Left 2, Left 3, and state.order equals it in every reachable state: no
\* command and no query changes its length or contents.
C12_OrderIsCanonical ==
    /\ initial_order = CanonicalOrder
    /\ Len(state.order) = 6
    /\ state.order = CanonicalOrder
    /\ prev.order = CanonicalOrder

C12_Witness ==
    /\ lastCall.op = "undo"
    /\ prev.cursor = 2
    /\ ~clean
    /\ state.order = CanonicalOrder
    /\ state.order[4] = [eye |-> "Left", index_in_eye |-> 1]

\* ------------------------------------------- properties of the report side
Exported == result.op = "export_with_csv_measurements" /\ result.raised = NoError

Saved == result.op = "save_report"

Rec == result.record[1]

Handed == result.handed[1]

Rows == request.csv.rows

SlotLists(rec) ==
    << rec.imgs_all, rec.onsd_values, rec.ond_values, rec.onsd_px_values,
       rec.ond_px_values, rec.depth_values, rec.latency_values, rec.status_values,
       rec.capture_times >>

\* C13: for image lists, measurement rows and capture times of any length
\* 0..MaxLen, every per-slot list of the reconciled record has exactly six
\* entries: the first six supplied entries, then padding.
C13_EveryListHasSixSlots ==
    (Exported \/ Saved) =>
        /\ \A k \in 1..9 : Len(SlotLists(Rec)[k]) = 6
        /\ Saved /\ request.capture_times # None =>
              \A i \in 1..6 :
                 Rec.capture_times[i] =
                    IF i <= Len(request.capture_times[1])
                    THEN request.capture_times[1][i] ELSE "--"
        /\ Saved /\ request.csv.is_file =>
              \A i \in 1..6 :
                 /\ i > Len(Rows) => Rec.onsd_px_values[i] = <<>>
                 /\ i > Len(Rows) => Rec.status_values[i] = <<"--">>
                 /\ i <= Len(Rows) => Rec.status_values[i] = Rows[i].status

C13_Witness ==
    /\ Saved
    /\ Len(Rows) = 10
    /\ request.capture_times # None
    /\ Len(request.capture_times[1]) = 9
    /\ Len(Rec.onsd_values) = 6
    /\ Rec.capture_times[6] = "10:15:06"

\* The cell of row i in a numeric column, read as the loader reads it.
CellValue(cell) ==
    IF cell # <<>> /\ cell[1].kind = "number" THEN <<cell[1].h>> ELSE <<>>

RECURSIVE SumOf(_)
SumOf(values) == IF values = <<>> THEN 0 ELSE Head(values) + SumOf(Tail(values))

Abs(n) == IF n < 0 THEN 0 - n ELSE n

\* avg is the mean of the present values, to the nearest hundredth; it is
\* missing exactly when no value is present.
IsRoundedMeanOf(avg, present) ==
    IF present = <<>> THEN avg = <<>>
    ELSE /\ avg # <<>>
         /\ 2 * Abs(Len(present) * avg[1] - SumOf(present)) <= Len(present)

\* The onsd_mm values that rows lo..hi of the CSV carry.
RECURSIVE RowValues(_, _)
RowValues(lo, hi) ==
    IF lo > hi THEN <<>>
    ELSE (IF lo <= Len(Rows) THEN CellValue(Rows[lo].onsd_mm) ELSE <<>>) \o RowValues(lo + 1, hi)

\* C14: measurement rows are aligned to slots by position only: slot i of
\* every metric list carries the field of row i when there is a row i and
\* the missing value otherwise; the right average is that of rows 0..2 and
\* the left average that of rows 3..5, whatever the rows' image identifiers.
C14_RowsAlignedByPosition ==
    Exported =>
        /\ \A i \in 1..6 :
              IF i <= Len(Rows)
              THEN /\ Rec.onsd_values[i] = CellValue(Rows[i].onsd_mm)
                   /\ Rec.ond_values[i] = CellValue(Rows[i].ond_mm)
                   /\ Rec.onsd_px_values[i] = CellValue(Rows[i].onsd_px)
                   /\ Rec.ond_px_values[i] = CellValue(Rows[i].ond_px)
                   /\ Rec.depth_values[i] = CellValue(Rows[i].depth_mm)
                   /\ Rec.latency_values[i] = CellValue(Rows[i].latency_s)
                   /\ Rec.status_values[i] = Rows[i].status
              ELSE /\ Rec.onsd_values[i] = <<>>
                   /\ Rec.ond_values[i] = <<>>
                   /\ Rec.onsd_px_values[i] = <<>>
                   /\ Rec.ond_px_values[i] = <<>>
                   /\ Rec.depth_values[i] = <<>>
                   /\ Rec.latency_values[i] = <<>>
                   /\ Rec.status_values[i] = <<>>
        /\ IsRoundedMeanOf(Rec.right_avg, RowValues(1, 3))
        /\ IsRoundedMeanOf(Rec.left_avg, RowValues(4, 6))

C14_Witness ==
    /\ Exported
    /\ Len(Rows) = 4
    /\ Rows[1].image_stem = <<"L3">>
    /\ Rows[4].image_stem = <<"R3">>
    /\ Rec.onsd_values[4] = <<492>>
    /\ Rec.onsd_values[5] = <<>>
    /\ Rec.left_avg = <<492>>

\* C15: the six-element image sequence holds the first three right images at
\* positions 0..2 and the first three left images at positions 3..5, in
\* order, and None at every position beyond the supplied count; a left image
\* never stands in a right slot.
C15_ImagesAlignedPerEye ==
    (Exported \/ Saved \/ result.op = "ReportData") =>
        /\ Len(Rec.imgs_all) = 6
        /\ \A i \in 1..3 :
              /\ Rec.imgs_all[i] =
                    IF i <= Len(request.images_right) THEN request.images_right[i] ELSE <<>>
              /\ Rec.imgs_all[3 + i] =
                    IF i <= Len(request.images_left) THEN request.images_left[i] ELSE <<>>
              /\ Rec.imgs_all[i] # <<>> => Rec.imgs_all[i][1].eye = "Right"
              /\ Rec.imgs_all[3 + i] # <<>> => Rec.imgs_all[3 + i][1].eye = "Left"

C15_Witness ==
    /\ Saved
    /\ Len(request.images_right) = 1
    /\ Len(request.images_left) = 5
    /\ Rec.imgs_all[2] = <<>>
    /\ Rec.imgs_all[4] = <<[eye |-> "Left", shot |-> 1]>>
    /\ Rec.imgs_all[6] = <<[eye |-> "Left", shot |-> 3]>>

\* C16: when export_with_csv_measurements is given at least six capture
\* times, the capture times handed to the writer are the first six of them
\* in order, whatever the time cells of the measurement rows hold.
C16_SuppliedTimesOverride ==
    (Exported /\ request.capture_times # None /\ Len(request.capture_times[1]) >= 6) =>
        /\ Handed.capture_times # <<>>
        /\ Len(Handed.capture_times[1]) = 6
        /\ \A i \in 1..6 : Handed.capture_times[1][i] = request.capture_times[1][i]
        /\ Rec.capture_times = Handed.capture_times[1]

C16_Witness ==
    /\ Exported
    /\ request.capture_times # None
    /\ Len(request.capture_times[1]) = 8
    /\ Len(Rows) = 6
    /\ Rows[1].time = <<"10:15:02">>
    /\ Handed.capture_times[1][1] = "10:15:01"

PlaceholderTimes == <<"12:00:00", "12:01:00", "12:02:00", "12:03:00", "12:04:00", "12:05:00">>

RECURSIVE SlotValues(_, _, _)
SlotValues(values, lo, hi) ==
    IF lo > hi THEN <<>> ELSE values[lo] \o SlotValues(values, lo + 1, hi)

\* C18: each eye's average is the sum of the present ONSD values among the
\* eye's three slots divided by their number, rounded to two decimals; it is
\* missing, never 0, when all three are missing.  2.37, 2.19, 4.92 give 3.16.
C18_EyeAverage ==
    (Exported \/ Saved) =>
        /\ IsRoundedMeanOf(Rec.right_avg, SlotValues(Rec.onsd_values, 1, 3))
        /\ IsRoundedMeanOf(Rec.left_avg, SlotValues(Rec.onsd_values, 4, 6))
        /\ SlotValues(Rec.onsd_values, 1, 3) = <<>> => Rec.right_avg # <<0>>
        /\ SlotValues(Rec.onsd_values, 4, 6) = <<>> => Rec.left_avg # <<0>>
        /\ SubSeq(Rec.onsd_values, 1, 3) = << <<237>>, <<219>>, <<492>> >> =>
              Rec.right_avg = <<316>>
        /\ SubSeq(Rec.onsd_values, 4, 6) = << <<237>>, <<219>>, <<492>> >> =>
              Rec.left_avg = <<316>>

C18_Witness ==
    /\ Exported
    /\ SubSeq(Rec.onsd_values, 1, 3) = << <<237>>, <<219>>, <<492>> >>
    /\ Rec.right_avg = <<316>>
    /\ SubSeq(Rec.onsd_values, 4, 6) = << <<>>, <<>>, <<>> >>
    /\ Len(Rows) = 6
    /\ Rec.left_avg = <<>>

\* The exact mean of the values lies halfway between two hundredths.
MeanIsHalfway(present) ==
    /\ present # <<>>
    /\ SumOf(present) % Len(present) # 0
    /\ (2 * SumOf(present)) % Len(present) = 0

\* C19: the average is rounded half away from zero: whenever the exact mean
\* of an eye's present values (given in hundredths) lies halfway between two
\* hundredths, the reported average is the one farther from zero.
C19_RoundsHalfAwayFromZero ==
    (Exported \/ Saved) =>
        /\ MeanIsHalfway(SlotValues(Rec.onsd_values, 1, 3)) =>
              Rec.right_avg =
                 << (SumOf(SlotValues(Rec.onsd_values, 1, 3))
                       \div Len(SlotValues(Rec.onsd_values, 1, 3))) + 1 >>
        /\ MeanIsHalfway(SlotValues(Rec.onsd_values, 4, 6)) =>
              Rec.left_avg =
                 << (SumOf(SlotValues(Rec.onsd_values, 4, 6))
                       \div Len(SlotValues(Rec.onsd_values, 4, 6))) + 1 >>

\* C20: zero is a measurement, not a missing value.  A slot value of 0
\* counts in the sum and in the count of the eye's average, a missing value
\* in neither: 0, missing, 4 average to 2.00 and 0, 0, 0 to 0.00; an average
\* is missing only when all three slots are; and a slot holds 0 only where
\* the row's cell is the number 0.
C20_ZeroIsNotMissing ==
    (Exported \/ Saved) =>
        /\ (Rec.right_avg = <<>>) <=> (\A i \in 1..3 : Rec.onsd_values[i] = <<>>)
        /\ (Rec.left_avg = <<>>) <=> (\A i \in 4..6 : Rec.onsd_values[i] = <<>>)
        /\ \A e \in {0, 3} :
              LET slots == SubSeq(Rec.onsd_values, e + 1, e + 3)
                  avg   == IF e = 0 THEN Rec.right_avg ELSE Rec.left_avg
              IN  /\ slots = << <<0>>, <<>>, <<400>> >> => avg = <<200>>
                  /\ slots = << <<0>>, <<0>>, <<0>> >> => avg = <<0>>
                  /\ slots = << <<0>>, <<>>, <<>> >> => avg = <<0>>
                  /\ slots = << <<>>, <<400>>, <<>> >> => avg = <<400>>
        /\ \A k \in 2..7 : \A i \in 1..6 :
              SlotLists(Rec)[k][i] = <<0>> =>
                 /\ i <= Len(Rows)
                 /\ k = 2
                 /\ Rows[i].onsd_mm = <<[kind |-> "number", h |-> 0]>>
        /\ \A i \in 1..6 :
              (i > Len(Rows) \/ CellValue(Rows[i].onsd_mm) = <<>>) => Rec.onsd_values[i] = <<>>

C20_Witness ==
    /\ Exported
    /\ SubSeq(Rec.onsd_values, 1, 3) = << <<0>>, <<>>, <<400>> >>
    /\ Rows[2].onsd_mm = <<[kind |-> "empty", h |-> 0]>>
    /\ Rec.right_avg = <<200>>

\* C21: the report is 'normal' iff both eye averages are present and both
\* are <= the writer's threshold (equal counts as within); a missing average
\* or an average above the threshold makes it 'abnormal'.  With threshold
\* 6.0, averages 3.16 and 4.05 are 'normal' and 7.0 and 3.0 'abnormal'.
C21_Classification ==
    (Exported \/ Saved) =>
        /\ result.page # <<>>
        /\ result.page[1].finding \in {"normal", "abnormal"}
        /\ (result.page[1].finding = "normal") <=>
              /\ Rec.right_avg # <<>>
              /\ Rec.left_avg # <<>>
              /\ Rec.right_avg[1] <= request.threshold_mm
              /\ Rec.left_avg[1] <= request.threshold_mm
        /\ (request.threshold_mm = 600 /\ Rec.right_avg = <<316>> /\ Rec.left_avg = <<405>>) =>
              result.page[1].finding = "normal"
        /\ (request.threshold_mm = 600 /\ Rec.right_avg = <<700>> /\ Rec.left_avg = <<300>>) =>
              result.page[1].finding = "abnormal"
        /\ (Rec.right_avg = <<>> \/ Rec.left_avg = <<>>) => result.page[1].finding = "abnormal"

C21_Witness ==
    /\ Exported
    /\ request.threshold_mm = 405
    /\ Rec.right_avg = <<316>>
    /\ Rec.left_avg = <<405>>
    /\ result.page[1].finding = "normal"

\* The processed frames of the captures lo..hi, in capture order.
ProcessedInputs(lo, hi) ==
    [i \in 1..(IF hi >= lo THEN hi - lo + 1 ELSE 0) |-> process(inputs[lo + i - 1])]

\* C22: from a fresh session six captures in order all succeed; then
\* is_complete() is true and next_expected_label() is 'Completed'; the
\* session's three right and three left images reconciled with six rows of
\* onsd_mm 2.37, 2.19, 4.92, 4.92, 4.92, 2.31 at threshold 6.0 give a right
\* average 3.16, a left average 4.05 and the finding 'normal'.
C22_EndToEnd ==
    /\ state.cursor = Len(inputs)
    /\ (lastCall.op = "capture" /\ prev.cursor < 6) => lastCall.raised = NoError
    /\ (lastCall.op = "is_complete" /\ Len(inputs) = 6) => lastCall.ret = <<TRUE>>
    /\ (lastCall.op = "is_complete" /\ Len(inputs) < 6) => lastCall.ret = <<FALSE>>
    /\ (lastCall.op = "next_expected_label" /\ Len(inputs) = 6) =>
          lastCall.ret = <<"Completed">>
    /\ ( /\ result.op = "export_with_csv_measurements"
         /\ Len(inputs) = 6
         /\ request.threshold_mm = 600
         /\ Len(Rows) = 6
         /\ \A i \in 1..6 :
               Rows[i].onsd_mm = <<[kind |-> "number", h |-> ExampleOnsd[i]]>> ) =>
          /\ result.raised = NoError
          /\ Len(request.images_right) = 3
          /\ Len(request.images_left) = 3
          /\ Rec.imgs_all = Wrap(ProcessedInputs(1, 6))
          /\ Rec.right_avg = <<316>>
          /\ Rec.left_avg = <<405>>
          /\ result.page[1].finding = "normal"

C22_Witness ==
    /\ result.op = "export_with_csv_measurements"
    /\ inputs = <<0, 1, 0, 1, 1, 0>>
    /\ lastCall.op = "next_expected_label"
    /\ lastCall.ret = <<"Completed">>
    /\ Rec.right_avg = <<316>>
    /\ Rec.left_avg = <<405>>
    /\ result.page[1].finding = "normal"

\* C23: a call on the report side leaves its inputs as they were: after
\* export, export_with_csv_measurements, save_report or ReportData every
\* list object the caller holds (the image lists, the capture times, the
\* value lists) has the contents it had before, the loaded measurement rows
\* are the rows that were loaded, and the session's cursor and buckets are
\* unchanged; the truncated and padded lists are other objects.
C23_InputsAreNotMutated ==
    result.op \in {"export", "export_with_csv_measurements", "save_report", "ReportData"} =>
        /\ \A n \in DOMAIN result.before :
              /\ n \in DOMAIN result.heap
              /\ result.heap[n] = result.before[n]
        /\ result.before.images_right = request.images_right
        /\ result.before.images_left = request.images_left
        /\ request.capture_times # <<>> =>
              result.before.capture_times = request.capture_times[1]
        /\ "measurements" \in DOMAIN result.heap =>
              result.heap["measurements"] = load_measurements(request.csv, 6).out
        /\ state.cursor = Len(inputs)
        /\ state.images_right = ProcessedInputs(1, Min(3, Len(inputs)))
        /\ state.images_left = ProcessedInputs(4, Len(inputs))
        /\ (result.record # <<>> /\ result.op # "ReportData") =>
              /\ result.heap["writer.imgs_all"] = Rec.imgs_all
              /\ result.heap["writer.capture_times"] = Rec.capture_times
              /\ result.heap["writer.onsd_values"] = Rec.onsd_values
              /\ result.heap["writer.status_values"] = Rec.status_values

C23_Witness ==
    /\ result.op = "export"
    /\ state.cursor = 6
    /\ request.capture_times # <<>>
    /\ Len(request.capture_times[1]) = 8
    /\ Len(result.heap["capture_times"]) = 8
    /\ Len(result.heap["writer.capture_times"]) = 6
    /\ Len(state.images_left) = 3

\* C24: export on a state that is not complete fails with "Capture all 6
\* images before exporting.", does not call the writer and leaves the state
\* as it was; on a complete state it calls the writer once with the state's
\* right and left images and returns the writer's pair of paths.
C24_ExportNeedsCompleteState ==
    result.op = "export" =>
        /\ state.cursor = Len(inputs)
        /\ state.images_right = ProcessedInputs(1, Min(3, Len(inputs)))
        /\ state.images_left = ProcessedInputs(4, Len(inputs))
        /\ IF state.cursor < 6
           THEN /\ result.raised = "Capture all 6 images before exporting."
                /\ result.writer_calls = 0
                /\ result.handed = <<>>
                /\ result.record = <<>>
                /\ result.ret = <<>>
           ELSE /\ result.raised = NoError
                /\ result.writer_calls = 1
                /\ Handed.images_right = Wrap(state.images_right)
                /\ Handed.images_left = Wrap(state.images_left)
                /\ result.ret = <<Rec.ret>>
                /\ result.ret = << <<"report.png", "report.pdf">> >>

C24_Witness ==
    /\ result.op = "export"
    /\ state.cursor = 4
    /\ result.raised = "Capture all 6 images before exporting."
    /\ result.writer_calls = 0
    /\ Len(state.images_left) = 1

\* The cell is no number: absent, empty or unparseable.
IsGap(cell) == cell = <<>> \/ cell[1].kind \in {"empty", "junk"}

\* C25: gaps in the measurement data are no errors.  For a CSV of any
\* number of rows, an empty one included, with any numeric cells empty or
\* unparseable, export_with_csv_measurements returns without raising, calls
\* the writer exactly once, and hands it None (not 0) in the slot of every
\* such cell and of every row that is not there.
C25_GapsAreNotErrors ==
    (result.op = "export_with_csv_measurements" /\ request.csv.is_file) =>
        /\ result.raised = NoError
        /\ result.writer_calls = 1
        /\ result.handed # <<>>
        /\ result.ret = << <<"report.png", "report.pdf">> >>
        /\ \A i \in 1..6 :
              LET gap(cell(_)) == i > Len(Rows) \/ IsGap(cell(Rows[i]))
                  onsd_mm(row)   == row.onsd_mm
                  ond_mm(row)    == row.ond_mm
                  onsd_px(row)   == row.onsd_px
                  ond_px(row)    == row.ond_px
                  depth_mm(row)  == row.depth_mm
                  latency_s(row) == row.latency_s
              IN  /\ gap(onsd_mm) <=> Handed.onsd_values[1][i] = <<>>
                  /\ gap(ond_mm) <=> Handed.ond_values[1][i] = <<>>
                  /\ gap(onsd_px) <=> Handed.onsd_px_values[1][i] = <<>>
                  /\ gap(ond_px) <=> Handed.ond_px_values[1][i] = <<>>
                  /\ gap(depth_mm) <=> Handed.depth_values[1][i] = <<>>
                  /\ gap(latency_s) <=> Handed.latency_values[1][i] = <<>>

C25_Witness ==
    /\ result.op = "export_with_csv_measurements"
    /\ Len(Rows) = 3
    /\ Rows[1].onsd_mm = <<[kind |-> "junk", h |-> 0]>>
    /\ Rows[2].onsd_mm = <<[kind |-> "empty", h |-> 0]>>
    /\ Rows[2].ond_mm = <<[kind |-> "empty", h |-> 0]>>
    /\ Rows[3].onsd_mm = <<[kind |-> "number", h |-> 0]>>
    /\ result.raised = NoError
    /\ result.writer_calls = 1
    /\ Handed.onsd_values[1] = << <<>>, <<>>, <<0>>, <<>>, <<>>, <<>> >>
    /\ Handed.ond_values[1][2] = <<>>

\* Row i of the CSV as the Measurement the loader makes of it.
RowAsMeasurement(i) ==
    [image_stem |-> Rows[i].image_stem,
     status     |-> Rows[i].status,
     ond_px     |-> CellValue(Rows[i].ond_px),
     onsd_px    |-> CellValue(Rows[i].onsd_px),
     ond_mm     |-> CellValue(Rows[i].ond_mm),
     onsd_mm    |-> CellValue(Rows[i].onsd_mm),
     depth_mm   |-> CellValue(Rows[i].depth_mm),
     latency_s  |-> CellValue(Rows[i].latency_s),
     time       |-> Rows[i].time]

EmptyMeasurement ==
    [image_stem |-> <<>>, status |-> <<>>, ond_px |-> <<>>, onsd_px |-> <<>>,
     ond_mm |-> <<>>, onsd_mm |-> <<>>, depth_mm |-> <<>>, latency_s |-> <<>>,
     time |-> <<>>]

\* C26: load_patient_report with the default max_rows = 6 on a source of
\* 0..MaxLen rows gives each eye exactly three measurements: right
\* measurement i is row i and left measurement i is row 3+i where these
\* rows exist, every other one is an empty measurement; rows after the
\* sixth are ignored.
C26_LoadPatientReport ==
    (result.op = "load_patient_report" /\ request.csv.is_file) =>
        /\ result.raised = NoError
        /\ Len(Rec.right_eye) = 3
        /\ Len(Rec.left_eye) = 3
        /\ \A i \in 1..3 :
              /\ Rec.right_eye[i] =
                    IF i <= Len(Rows) THEN RowAsMeasurement(i) ELSE EmptyMeasurement
              /\ Rec.left_eye[i] =
                    IF 3 + i <= Len(Rows) THEN RowAsMeasurement(3 + i) ELSE EmptyMeasurement

C26_Witness ==
    /\ result.op = "load_patient_report"
    /\ Len(Rows) = 4
    /\ Rec.right_eye[3].onsd_mm = <<492>>
    /\ Rec.left_eye[1] = RowAsMeasurement(4)
    /\ Rec.left_eye[2] = EmptyMeasurement
    /\ Rec.left_eye[3] = EmptyMeasurement

\* C27: all_measurements of a PatientReport whose eyes hold 0..MaxPerEye
\* measurements each has six entries, entries 0..2 being the right eye's
\* measurements and entries 3..5 the left eye's; onsd_values, ond_values,
\* capture_times and status_values have six entries in the same order.
C27_AllMeasurementsInSlotOrder ==
    result.op \in {"PatientReport", "load_patient_report"} /\ result.record # <<>> =>
        /\ Len(Rec.all_measurements) = 6
        /\ Len(Rec.onsd_values) = 6
        /\ Len(Rec.ond_values) = 6
        /\ Len(Rec.capture_times) = 6
        /\ Len(Rec.status_values) = 6
        /\ \A i \in 1..3 :
              /\ i <= Len(Rec.right_eye) => Rec.all_measurements[i] = Rec.right_eye[i]
              /\ i <= Len(Rec.left_eye) => Rec.all_measurements[3 + i] = Rec.left_eye[i]

\* C28: the bucket is chosen by the cursor, never by the item.  A session
\* given any frames and a session given the same commands with one and the
\* same frame have, after every step, the same cursor and buckets of the
\* same lengths; the fourth successful capture of a fresh session lands in
\* images_left.
C28_BucketIndependentOfContent ==
    /\ state.cursor = twin.cursor
    /\ Len(state.images_right) = Len(twin.images_right)
    /\ Len(state.images_left) = Len(twin.images_left)
    /\ (clean /\ Len(inputs) = 4 /\ lastCall.op = "capture" /\ lastCall.raised = NoError) =>
          /\ state.images_left = <<process(inputs[4])>>
          /\ state.images_right = <<process(inputs[1]), process(inputs[2]), process(inputs[3])>>
          /\ twin.images_left = <<process(ReferenceFrame)>>

C28_Witness ==
    /\ clean
    /\ inputs = <<1, 1, 0, 1>>
    /\ lastCall.op = "capture"
    /\ lastCall.raised = NoError
    /\ state.images_left = <<process(1)>>
    /\ twin.images_left = <<process(0)>>
    /\ twin.images_right # state.images_right

\* The bucket of the slot that an undo in state s vacates.
VacatedBucket(s) ==
    IF s.order[s.cursor].eye = "Right" THEN s.images_right ELSE s.images_left

\* C29: in any state with 1 <= cursor <= 6 whose bucket of the slot being
\* vacated is empty, undo does not raise, takes one off the cursor and
\* leaves both buckets as they are.
C29_DefensiveUndo ==
    ( /\ lastCall.op = "undo"
      /\ prev.cursor >= 1
      /\ prev.cursor <= 6
      /\ VacatedBucket(prev) = <<>> ) =>
        /\ lastCall.raised = NoError
        /\ state.cursor = prev.cursor - 1
        /\ state.images_right = prev.images_right
        /\ state.images_left = prev.images_left
        /\ state.order = prev.order

C29_Witness ==
    /\ lastCall.op = "undo"
    /\ prev.cursor = 5
    /\ prev.images_left = <<>>
    /\ Len(prev.images_right) = 2
    /\ state.cursor = 4
    /\ state.images_left = <<>>
    /\ Len(state.images_right) = 2

\* C30: on_capture with a current frame and outside review enters review
\* mode and commits nothing: the controller's cursor and buckets and the
\* window's capture_index, captured_images, onsd_values and capture_times
\* are what they were; on_capture during review or without a current frame
\* changes nothing at all, neither in the window nor in the controller.
C30_CaptureEntersReviewOnly ==
    lastCall.op = "on_capture" =>
        LET w == lastCall.window
        IN  IF w.current_frame # None /\ ~ w.in_review
            THEN /\ gui.in_review
                 /\ state.cursor = prev.cursor
                 /\ state.images_right = prev.images_right
                 /\ state.images_left = prev.images_left
                 /\ gui.capture_index = w.capture_index
                 /\ gui.captured_images = w.captured_images
                 /\ gui.onsd_values = w.onsd_values
                 /\ gui.capture_times = w.capture_times
            ELSE /\ gui = w
                 /\ state = prev

\* on_capture has entered review in a session with two images saved.
C30_Witness ==
    /\ lastCall.op = "on_capture"
    /\ lastCall.window.current_frame # None
    /\ ~ lastCall.window.in_review
    /\ gui.in_review
    /\ gui.capture_index = 2
    /\ state.cursor = 2

\* The window after the handler extends list by exactly one entry.
OneAppended(before, after) ==
    /\ Len(after) = Len(before) + 1
    /\ SubSeq(after, 1, Len(before)) = before

\* C31: on_save in review mode with fewer than five images saved leaves
\* review mode, advances the controller's cursor by exactly one, increases
\* capture_index by exactly one and appends exactly one entry to each of
\* captured_images, onsd_values and capture_times.
C31_SaveStep ==
    (/\ lastCall.op = "on_save"
     /\ lastCall.window.in_review
     /\ lastCall.window.capture_index < 5)
        => LET w == lastCall.window
           IN  /\ ~ gui.in_review
               /\ state.cursor = prev.cursor + 1
               /\ gui.capture_index = w.capture_index + 1
               /\ OneAppended(w.captured_images, gui.captured_images)
               /\ OneAppended(w.onsd_values, gui.onsd_values)
               /\ OneAppended(w.capture_times, gui.capture_times)

\* C32: on_delete leaves review mode without saving: capture_index,
\* captured_images, onsd_values, capture_times and the controller's cursor
\* and buckets are what they were when on_delete began, and after an
\* on_capture followed at once by on_delete they are what they were before
\* that on_capture.
C32_DeleteStep ==
    lastCall.op = "on_delete" =>
        LET w == lastCall.window
        IN  /\ ~ gui.in_review
            /\ gui.capture_index = w.capture_index
            /\ gui.captured_images = w.captured_images
            /\ gui.onsd_values = w.onsd_values
            /\ gui.capture_times = w.capture_times
            /\ state = prev
            /\ lastCall.earlier # None =>
                   LET b == lastCall.earlier[1]
                   IN  /\ gui.capture_index = b.window.capture_index
                       /\ gui.captured_images = b.window.captured_images
                       /\ gui.onsd_values = b.window.onsd_values
                       /\ gui.capture_times = b.window.capture_times
                       /\ state.cursor = b.state.cursor
                       /\ state.images_right = b.state.images_right
                       /\ state.images_left = b.state.images_left

\* A capture outside review was deleted in a session with four images saved.
C32_Witness ==
    /\ lastCall.op = "on_delete"
    /\ lastCall.window.in_review
    /\ lastCall.earlier # None
    /\ ~ lastCall.earlier[1].window.in_review
    /\ gui.capture_index = 4
    /\ state.cursor = 4
    /\ Len(state.images_left) = 1

\* The application is in its initial state: nothing saved in the window,
\* not in review, the controller at cursor 0 with empty buckets.
BackToInitialState ==
    /\ gui.capture_index = 0
    /\ gui.captured_images = <<>>
    /\ gui.onsd_values = <<>>
    /\ gui.capture_times = <<>>
    /\ ~ gui.in_review
    /\ state.cursor = 0
    /\ state.images_right = <<>>
    /\ state.images_left = <<>>

\* C33: the on_save that stores the sixth image of the session (the
\* controller held five and the handler had a frame to commit) ends with
\* the application back in the initial state, whatever the folder dialog,
\* the measurement CSV and the exporter did.
C33_AutoReset ==
    (/\ lastCall.op = "on_save"
     /\ lastCall.window.current_frame # None
     /\ prev.cursor = 5)
        => BackToInitialState

\* C34: in every state reached by capture, undo and reset the right bucket
\* holds min(cursor, 3) items and the left bucket max(cursor - 3, 0); hence
\* the left bucket is non-empty only when the right one holds three, and
\* is_complete() holds exactly when there are three right and three left
\* images.
C34_BucketShape ==
    /\ Len(state.images_right) = (IF state.cursor < 3 THEN state.cursor ELSE 3)
    /\ Len(state.images_left) = (IF state.cursor - 3 > 0 THEN state.cursor - 3 ELSE 0)
    /\ state.images_left # <<>> => Len(state.images_right) = 3
    /\ is_complete(state) <=>
           (Len(state.images_right) = 3 /\ Len(state.images_left) = 3)

\* An undo has taken the session back from the left eye's first item to
\* three right images, after an earlier undo or reset.
C34_Witness ==
    /\ lastCall.op = "undo"
    /\ prev.cursor = 4
    /\ state.cursor = 3
    /\ Len(state.images_right) = 3
    /\ state.images_left = <<>>

\* C35: after any sequence of on_frame, on_capture, on_save and on_delete,
\* each run to completion, capture_index, the controller's cursor and the
\* lengths of captured_images, onsd_values and capture_times are equal.
C35_WindowFollowsController ==
    /\ gui.capture_index = state.cursor
    /\ gui.capture_index = Len(gui.captured_images)
    /\ gui.capture_index = Len(gui.onsd_values)
    /\ gui.capture_index = Len(gui.capture_times)

\* The item the controller stored last.
LastStored(s) ==
    IF s.cursor <= 3 THEN s.images_right[s.cursor] ELSE s.images_left[s.cursor - 3]

\* C36: the committed frame is the reviewed frame.  During review on_frame
\* leaves current_frame alone, the review image is the processed current
\* frame as long as the review lasts, and an on_save in review passes to
\* controller.capture the frame the review image was produced from: what
\* the controller stores is the reviewed image.
C36_CommittedFrameIsReviewed ==
    /\ gui.in_review =>
           /\ gui.current_frame # None
           /\ gui.review_image = Some(process(gui.current_frame[1]))
    /\ (lastCall.op = "on_frame" /\ lastCall.window.in_review) =>
           gui.current_frame = lastCall.window.current_frame
    /\ (lastCall.op = "on_save" /\ lastCall.window.in_review) =>
           /\ lastCall.window.review_image = Some(process(lastCall.frame))
           /\ state.cursor = prev.cursor + 1 =>
                  Some(LastStored(state)) = lastCall.window.review_image
           /\ request # NoRequest =>
                  request.images_left[3] = lastCall.window.review_image

\* A reviewed image of picture 1 was saved as the left eye's first item,
\* in a session whose earlier images show picture 0.
C36_Witness ==
    /\ lastCall.op = "on_save"
    /\ lastCall.window.in_review
    /\ lastCall.frame = 1
    /\ state.cursor = 4
    /\ gui.capture_index = 4
    /\ state.images_left = <<process(1)>>
    /\ state.images_right[3] = process(0)

\* C37: the window calls export_with_csv_measurements only from the save
\* that completes the session.  Whenever it is called the controller is
\* complete, it is passed the controller's three right and three left
\* images and six capture times, one per saved image in save order, and the
\* same handler resets the session, so that no second call is made before
\* the next reset.
C37_ExportOnlyOnCompletion ==
    result.op # "none" =>
        LET w == lastCall.window
            committed == store_image(prev, process(lastCall.frame))
        IN  /\ result.op = "export_with_csv_measurements"
            /\ lastCall.op = "on_save"
            /\ prev.cursor = 5
            /\ is_complete(committed)
            /\ Len(request.images_right) = 3
            /\ Len(request.images_left) = 3
            /\ request.images_right = Wrap(committed.images_right)
            /\ request.images_left = Wrap(committed.images_left)
            /\ request.capture_times # None
            /\ Len(request.capture_times[1]) = 6
            /\ SubSeq(request.capture_times[1], 1, 5) = w.capture_times
            /\ request.capture_times[1] = CaptureTimeList(6)
            /\ BackToInitialState

\* The sixth save has exported a report from the CSV of six rows.
C37_Witness ==
    /\ result.op = "export_with_csv_measurements"
    /\ result.raised = NoError
    /\ result.writer_calls = 1
    /\ lastCall.op = "on_save"
    /\ lastCall.window.capture_index = 5
    /\ Len(request.csv.rows) = 6
    /\ gui.capture_index = 0

\* A list of one to five capture times was supplied.
PartialTimes ==
    /\ request.capture_times # None
    /\ Len(request.capture_times[1]) \in 1..5

C39_AveragesAgree ==
    Exported =>
        LET loaded == load_patient_report(request.csv, 6)
            report == PatientReport_lists(loaded.report[1])
        IN  /\ loaded.raised = NoError
            /\ Rec.right_avg = report.right_average_onsd_mm
            /\ Rec.left_avg = report.left_average_onsd_mm
            /\ (Rec.right_avg = None) <=> (report.right_average_onsd_mm = None)
            /\ (Rec.left_avg = None) <=> (report.left_average_onsd_mm = None)

\* Four rows: the right eye averages three values, the left eye's only
\* value is its average.
C39_Witness ==
    /\ Exported
    /\ Len(Rows) = 4
    /\ Rec.right_avg # None
    /\ Rec.left_avg # None
    /\ Rec.left_avg = Rec.onsd_values[4]
    /\ Rec.right_avg # Rec.left_avg
    /\ Rec.onsd_values[5] = None

\* C40: colour coding and classification agree.  The page is classified
\* normal exactly when neither average is missing and neither is drawn in
\* red; a present average is red exactly when it is above the threshold,
\* so it is never both red and within the threshold, and an average equal
\* to the threshold is not red.
C40_ColourAgreesWithFinding ==
    (Exported \/ Saved) =>
        LET page == result.page[1]
            t == request.threshold_mm
            Agrees(avg, colour) ==
                /\ avg = None => colour = "black"
                /\ avg # None =>
                       /\ (colour = "red") <=> (avg[1] > t)
                       /\ ~ (colour = "red" /\ avg[1] <= t)
                       /\ avg[1] = t => colour # "red"
        IN  /\ (page.finding = "normal") <=>
                   /\ Rec.right_avg # None
                   /\ Rec.left_avg # None
                   /\ page.right_color # "red"
                   /\ page.left_color # "red"
            /\ Agrees(Rec.right_avg, page.right_color)
            /\ Agrees(Rec.left_avg, page.left_color)

\* The right average is just above the threshold and red, the left one is
\* the threshold itself and not red; the finding is abnormal.
C40_Witness ==
    /\ Exported
    /\ request.threshold_mm = 405
    /\ Rec.right_avg = <<406>>
    /\ Rec.left_avg = <<405>>
    /\ result.page[1].right_color = "red"
    /\ result.page[1].left_color = "blue"
    /\ result.page[1].finding = "abnormal"
====
